---- MODULE Spec2Model ----
(***************************************************************************)
(* Vakya content script: article matching, reversible in-place rewrite,   *)
(* and the word / sentence interaction modes.                              *)
(*                                                                         *)
(* The repository holds two revisions of the content script:              *)
(*   rev = "matcher"   the copy embedded in src/README.md (lines 114 ff),  *)
(*                     which finds the article with Readability and the    *)
(*                     live-DOM matcher and tracks hover by mouse moves;   *)
(*   rev = "selector"  src/contentScript.js, which collects paragraphs by  *)
(*                     CSS selectors and tracks hover by enter / leave.    *)
(* Both are modelled; rev is fixed by Init.                                *)
(*                                                                         *)
(* Text is a sequence of one-character strings.  An absent value (null /   *)
(* undefined) is the empty sequence None, a present one is Some(x).        *)
(***************************************************************************)
EXTENDS Integers, Sequences, FiniteSets, TLC

None == <<>>
Some(x) == <<x>>

(***************************************************************************)
(* Characters                                                              *)
(***************************************************************************)
\* \s of the regular expressions: space, tab, newline.
Whitespace == {" ", "\t", "\n"}

\* Upper-case letters the texts use, and String.prototype.toLowerCase on them.
UpperCase == {"A", "Z"}

toLowerCase(c) == IF c = "A" THEN "a" ELSE IF c = "Z" THEN "z" ELSE c

(***************************************************************************)
(* Text helpers                                                            *)
(***************************************************************************)
RECURSIVE Concat(_)
Concat(ss) == IF ss = <<>> THEN <<>> ELSE Head(ss) \o Concat(Tail(ss))

RECURSIVE Join(_, _)
Join(ws, sep) ==
  IF ws = <<>> THEN <<>>
  ELSE IF Len(ws) = 1 THEN ws[1]
  ELSE ws[1] \o sep \o Join(Tail(ws), sep)

\* String.prototype.trim
RECURSIVE trimStart(_)
trimStart(s) ==
  IF s # <<>> /\ s[1] \in Whitespace THEN trimStart(Tail(s)) ELSE s

RECURSIVE trimEnd(_)
trimEnd(s) ==
  IF s # <<>> /\ s[Len(s)] \in Whitespace
  THEN trimEnd(SubSeq(s, 1, Len(s) - 1)) ELSE s

trim(s) == trimEnd(trimStart(s))

\* text.replace(/\s+/g, ' '): every maximal whitespace run becomes one space.
RECURSIVE collapseWhitespace(_)
collapseWhitespace(s) ==
  IF s = <<>> THEN <<>>
  ELSE IF s[1] \in Whitespace
       THEN <<" ">> \o collapseWhitespace(trimStart(s))
       ELSE <<s[1]>> \o collapseWhitespace(Tail(s))

lowerCaseText(s) == [i \in 1..Len(s) |-> toLowerCase(s[i])]

\* normalizeText without trim()
normalizeText_NoTrim(text) == lowerCaseText(collapseWhitespace(text))

normalizeText(text) == lowerCaseText(trim(collapseWhitespace(text)))

\* s.split(/\s+/): the maximal runs of non-whitespace, in order.  (The empty
\* strings JavaScript yields at a leading or trailing separator are dropped
\* here; every user filters them out by length.)
RECURSIVE takeWord(_)
takeWord(s) ==
  IF s = <<>> \/ s[1] \in Whitespace THEN <<>>
  ELSE <<s[1]>> \o takeWord(Tail(s))

RECURSIVE splitWhitespace(_)
splitWhitespace(s) ==
  LET t == trimStart(s) IN
  IF t = <<>> THEN <<>>
  ELSE LET w == takeWord(t) IN
       <<w>> \o splitWhitespace(SubSeq(t, Len(w) + 1, Len(t)))

MinWordLen == 2

\* new Set(a.split(/\s+/).filter(w => w.length > 2))
wordSet(a) ==
  LET ws == splitWhitespace(a) IN
  {ws[i] : i \in {j \in 1..Len(ws) : Len(ws[j]) > MinWordLen}}

\* textSimilarity with the sizes of the two sets added up as the union
textSimilarity_SumAsUnion(a, b) ==
  LET wordsA == wordSet(a)
      wordsB == wordSet(b)
      intersection == Cardinality(wordsA \cap wordsB)
  IN IF wordsA = {} \/ wordsB = {} THEN <<0, 1>>
     ELSE <<intersection, Cardinality(wordsA) + Cardinality(wordsB)>>

\* textSimilarity returns intersection / union; the quotient is kept as the
\* pair <<intersection, union>> and compared by cross-multiplication.
textSimilarity(a, b) ==
  LET wordsA == wordSet(a)
      wordsB == wordSet(b)
      intersection == Cardinality(wordsA \cap wordsB)
  IN IF wordsA = {} \/ wordsB = {} THEN <<0, 1>>
     ELSE <<intersection,
            Cardinality(wordsA) + Cardinality(wordsB) - intersection>>

\* q >= r in place of q > r
Greater_OrEqual(q, r) == q[1] * r[2] >= r[1] * q[2]

\* q > r for quotients with positive denominators
Greater(q, r) == q[1] * r[2] > r[1] * q[2]

\* The threshold 0.85 as 85 / 100.
ThresholdNum == 85
ThresholdDen == 100

(***************************************************************************)
(* Texts of the modelled pages.  Article paragraphs are seven five-letter  *)
(* words, 41 characters: longer than the 30 of the matcher revision and    *)
(* the 40 of the selector revision, and enough words for a fuzzy match.    *)
(***************************************************************************)
wAlpha == <<"A", "l", "p", "h", "a">>
wBravo == <<"b", "r", "a", "v", "o">>
wDelta == <<"d", "e", "l", "t", "a">>
wGamma == <<"g", "a", "m", "m", "a">>
wKappa == <<"k", "a", "p", "p", "a">>
wSigma == <<"s", "i", "g", "m", "a">>
wTheta == <<"t", "h", "e", "t", "a">>
wOmega == <<"o", "m", "e", "g", "a">>
wZebra == <<"Z", "e", "b", "r", "a">>
wTiger == <<"t", "i", "g", "e", "r">>
wOtter == <<"o", "t", "t", "e", "r">>
wLemur == <<"l", "e", "m", "u", "r">>
wKoala == <<"k", "o", "a", "l", "a">>
wHyena == <<"h", "y", "e", "n", "a">>
wRhino == <<"r", "h", "i", "n", "o">>
wAb == <<"a", "b">>

SP == <<" ">>

\* "Alpha bravo delta gamma kappa sigma theta"
TextA == Join(<<wAlpha, wBravo, wDelta, wGamma, wKappa, wSigma, wTheta>>, SP)

\* "Zebra tiger otter lemur koala hyena rhino"
TextZ == Join(<<wZebra, wTiger, wOtter, wLemur, wKoala, wHyena, wRhino>>, SP)

\* TextA as the page's markup carries it: line breaks and doubled spaces.
TextASpaced ==
  <<"\n", " ">> \o
  Join(<<wAlpha, wBravo, wDelta, wGamma>>, <<" ", " ">>) \o <<"\n">> \o
  Join(<<wKappa, wSigma, wTheta>>, SP) \o <<" ">>

\* TextA with an eighth word: similarity 7/8 with TextA.
TextAOmega == TextA \o SP \o wOmega

\* TextA followed by a two-letter word: similarity 1 with TextA, not equal.
TextAAb == TextA \o SP \o wAb

\* Five of TextA's words and two others: similarity 5/9 with TextA.
TextAFar == Join(<<wAlpha, wBravo, wDelta, wGamma, wKappa, wZebra, wTiger>>, SP)

\* A navigation label, too short to be an article block.
TextMenu == wOmega \o SP \o wAb

(***************************************************************************)
(* The DOM.  An element is a number, 1 is document.body.  A document is    *)
(* [tag, role, kids]: the tag name and role attribute of every element     *)
(* and its child nodes in order.  A child node is a text node, an element  *)
(* or a word unit (the span.vakya-word renderTranslatedBlock creates).     *)
(***************************************************************************)
Body == 1

TextNode(s) == [k |-> "text", s |-> s, id |-> 0, word |-> <<>>]
ElemNode(e) == [k |-> "elem", s |-> <<>>, id |-> e, word |-> <<>>]
WordNode(s, w) == [k |-> "word", s |-> s, id |-> 0, word |-> w]

\* body > [ div "omega ab", article > [ p TextASpaced, p TextZ ] ]
PageArticle ==
  [tag  |-> <<"BODY", "DIV", "ARTICLE", "P", "P">>,
   role |-> <<"", "", "", "", "">>,
   kids |-> << <<ElemNode(2), ElemNode(3)>>,
               <<TextNode(TextMenu)>>,
               <<ElemNode(4), ElemNode(5)>>,
               <<TextNode(TextASpaced)>>,
               <<TextNode(TextZ)>> >>]

\* body > main > li > p TextA : a list item wrapping one paragraph
PageList ==
  [tag  |-> <<"BODY", "MAIN", "LI", "P">>,
   role |-> <<"", "", "", "">>,
   kids |-> << <<ElemNode(2)>>,
               <<ElemNode(3)>>,
               <<ElemNode(4)>>,
               <<TextNode(TextA)>> >>]

\* body > div > span TextA : a generic container wrapping an inline element
PageWrapped ==
  [tag  |-> <<"BODY", "DIV", "SPAN">>,
   role |-> <<"", "", "">>,
   kids |-> << <<ElemNode(2)>>,
               <<ElemNode(3)>>,
               <<TextNode(TextA)>> >>]

\* body > [ div > [ span TextA, " ab" ], p TextZ ]
PageMixed ==
  [tag  |-> <<"BODY", "DIV", "SPAN", "P">>,
   role |-> <<"", "", "", "">>,
   kids |-> << <<ElemNode(2), ElemNode(4)>>,
               <<ElemNode(3), TextNode(SP \o wAb)>>,
               <<TextNode(TextA)>>,
               <<TextNode(TextZ)>> >>]

\* body > [ p TextAOmega, p TextA, td TextASpaced ] : three look-alikes
PageAlike ==
  [tag  |-> <<"BODY", "P", "P", "TD">>,
   role |-> <<"", "", "", "">>,
   kids |-> << <<ElemNode(2), ElemNode(3), ElemNode(4)>>,
               <<TextNode(TextAOmega)>>,
               <<TextNode(TextA)>>,
               <<TextNode(TextASpaced)>> >>]

\* body > div > figcaption TextA : a generic container wrapping a caption
PageFigure ==
  [tag  |-> <<"BODY", "DIV", "FIGCAPTION">>,
   role |-> <<"", "", "">>,
   kids |-> << <<ElemNode(2)>>,
               <<ElemNode(3)>>,
               <<TextNode(TextA)>> >>]

\* body > div[role=main] > [ div > p TextA, p TextZ ]
PageRole ==
  [tag  |-> <<"BODY", "DIV", "DIV", "P", "P">>,
   role |-> <<"", "main", "", "", "">>,
   kids |-> << <<ElemNode(2)>>,
               <<ElemNode(3), ElemNode(5)>>,
               <<ElemNode(4)>>,
               <<TextNode(TextA)>>,
               <<TextNode(TextZ)>> >>]

Elements(d) == DOMAIN d.tag

\* Node.textContent
RECURSIVE textContent(_, _)
textContent(kids, e) ==
  Concat([i \in 1..Len(kids[e]) |->
            IF kids[e][i].k = "elem" THEN textContent(kids, kids[e][i].id)
            ELSE kids[e][i].s])

\* Element.children that are elements of the page (word units are spans
\* created by the script and are looked at separately).
children(kids, e) ==
  LET idx == {i \in 1..Len(kids[e]) : kids[e][i].k = "elem"} IN
  {kids[e][i].id : i \in idx}

\* The elements below e, in document order.
RECURSIVE descendants(_, _)
descendants(kids, e) ==
  Concat([i \in 1..Len(kids[e]) |->
            IF kids[e][i].k = "elem"
            THEN <<kids[e][i].id>> \o descendants(kids, kids[e][i].id)
            ELSE <<>>])

\* Element.parentElement: None for a detached element and for the body.
parentElement(kids, e) ==
  LET ps == {p \in DOMAIN kids : e \in children(kids, p)} IN
  IF ps = {} THEN None ELSE Some(CHOOSE p \in ps : TRUE)

\* The ancestors of e up to, and excluding, document.body.
RECURSIVE ancestorsBelowBody(_, _)
ancestorsBelowBody(kids, e) ==
  LET parent == parentElement(kids, e) IN
  IF parent = None \/ parent = Some(Body) THEN {}
  ELSE {parent[1]} \cup ancestorsBelowBody(kids, parent[1])

RECURSIVE ancestors(_, _)
ancestors(kids, e) ==
  LET parent == parentElement(kids, e) IN
  IF parent = None THEN {}
  ELSE {parent[1]} \cup ancestors(kids, parent[1])

\* document.querySelectorAll(<list of tag names>), in document order.
querySelectorAll(d, tags) ==
  SelectSeq(descendants(d.kids, Body), LAMBDA e : d.tag[e] \in tags)

(***************************************************************************)
(* Live-DOM matcher (matcher revision)                                     *)
(***************************************************************************)
CandidateTags ==
  {"P", "H1", "H2", "H3", "H4", "H5", "H6", "LI", "BLOCKQUOTE",
   "TD", "TH", "FIGCAPTION", "DIV", "SPAN"}

BlockTags ==
  {"P", "H1", "H2", "H3", "H4", "H5", "H6", "LI", "BLOCKQUOTE",
   "DIV", "ARTICLE", "SECTION"}

MinBlockLen == 30

isContainerElement(d, el) ==
  \E child \in children(d.kids, el) :
    /\ d.tag[child] \in BlockTags
    /\ Len(trim(textContent(d.kids, child))) > MinBlockLen

\* The two `continue` tests at the head of the candidate loop.
skipCandidate_IgnoreUsed(d, usedElements, el) == isContainerElement(d, el)

skipCandidate(d, usedElements, el) ==
  el \in usedElements \/ isContainerElement(d, el)

NoMatch == [el |-> None, score |-> <<0, 1>>]

\* The inner loop over the candidates for one target text, from candidate j
\* on, with the best fuzzy match so far; an exact match ends the loop.
RECURSIVE scanCandidates(_, _, _, _, _, _)
scanCandidates(d, candidates, j, usedElements, normalizedTarget, best) ==
  IF j > Len(candidates) THEN best
  ELSE
    LET el == candidates[j] IN
    IF skipCandidate(d, usedElements, el)
    THEN scanCandidates(d, candidates, j + 1, usedElements,
                        normalizedTarget, best)
    ELSE
      LET elText == normalizeText(textContent(d.kids, el))
          similarity == textSimilarity(elText, normalizedTarget)
      IN IF elText = normalizedTarget
         THEN [el |-> Some(el), score |-> <<1, 1>>]
         ELSE IF /\ Greater(similarity, <<ThresholdNum, ThresholdDen>>)
                 /\ Greater(similarity, best.score)
              THEN scanCandidates(d, candidates, j + 1, usedElements,
                                  normalizedTarget,
                                  [el |-> Some(el), score |-> similarity])
              ELSE scanCandidates(d, candidates, j + 1, usedElements,
                                  normalizedTarget, best)

\* A match that adds only the element itself to usedElements
markUsed_OnlyMatch(d, bestMatch) == {bestMatch}

\* What a match adds to usedElements: the element and its ancestors.
markUsed(d, bestMatch) ==
  {bestMatch} \cup ancestorsBelowBody(d.kids, bestMatch)

\* The outer loop over the text blocks, from block i on.
RECURSIVE matchBlocks(_, _, _, _, _, _)
matchBlocks(d, candidates, textBlocks, i, found, usedElements) ==
  IF i > Len(textBlocks) THEN found
  ELSE
    LET best == scanCandidates(d, candidates, 1, usedElements,
                               normalizeText(textBlocks[i]), NoMatch)
    IN IF best.el # None
       THEN matchBlocks(d, candidates, textBlocks, i + 1,
                        Append(found, best.el[1]),
                        usedElements \cup markUsed(d, best.el[1]))
       ELSE matchBlocks(d, candidates, textBlocks, i + 1, found, usedElements)

findOriginalElementsByText(d, textBlocks) ==
  matchBlocks(d, querySelectorAll(d, CandidateTags), textBlocks, 1, <<>>, {})

(***************************************************************************)
(* Tokenization (renderTranslatedBlock)                                    *)
(***************************************************************************)
\* \p{L}: the letters the texts use.
Letters ==
  {"a", "b", "c", "d", "e", "f", "g", "h", "i", "j", "k", "l", "m", "n", "o",
   "p", "r", "s", "t", "u", "v", "w", "y", "z"} \cup UpperCase

\* \p{Pd}: dash punctuation.   \p{M}: combining marks, "~" standing for one.
Dashes == {"-"}
Marks == {"~"}
Apostrophe == {"'"}

RECURSIVE takeSpace(_)
takeSpace(s) ==
  IF s = <<>> \/ s[1] \notin Whitespace THEN <<>>
  ELSE <<s[1]>> \o takeSpace(Tail(s))

\* text.split(/\s+/), no capture group: the whitespace runs are lost
splitKeepingWhitespace_NoCapture(text) == splitWhitespace(text)

\* text.split(/(\s+)/) without the empty strings the loop skips: the maximal
\* runs of whitespace and of non-whitespace, alternating, in order.
RECURSIVE splitKeepingWhitespace(_)
splitKeepingWhitespace(text) ==
  IF text = <<>> THEN <<>>
  ELSE LET run == IF text[1] \in Whitespace THEN takeSpace(text)
                  ELSE takeWord(text)
       IN <<run>> \o splitKeepingWhitespace(SubSeq(text, Len(run) + 1, Len(text)))

\* /[\p{L}]/u.test(fragment)
hasLetter(fragment) == \E i \in 1..Len(fragment) : fragment[i] \in Letters

\* fragment.replace(/[^\p{L}]/gu, ''): letters only
lookupKey_LettersOnly(fragment) == SelectSeq(fragment, LAMBDA c : c \in Letters)

\* fragment.replace(/[^\p{L}\p{Pd}\p{M}']/gu, '')
lookupKey(fragment) ==
  SelectSeq(fragment,
            LAMBDA c : c \in Letters \cup Dashes \cup Marks \cup Apostrophe)

\* The child node appended for one fragment.
fragmentNode(fragment) ==
  IF hasLetter(fragment) THEN WordNode(fragment, lookupKey(fragment))
  ELSE TextNode(fragment)

\* The children renderTranslatedBlock leaves in the element.
renderedNodes(text) ==
  LET fragments == splitKeepingWhitespace(text) IN
  [i \in 1..Len(fragments) |-> fragmentNode(fragments[i])]

(***************************************************************************)
(* Bounds of the model                                                     *)
(***************************************************************************)
\* translatePage calls awaiting their response or their settings read
MaxTranslateCalls == 2
\* showWordTooltip calls awaiting the on-device translator
MaxWordFlows == 1
\* analyzeWordWithButton calls awaiting the analysis response
MaxAnalyses == 2
\* pending setTimeout(hideFloatingBar, ...) timers
MaxTimers == 1
\* text blocks handed to the matcher when it is checked on its own
MaxBlocks == 2
\* places among the children of an element where a click on a word unit is tried
MaxWordPlace == 3
\* length of the texts renderTranslatedBlock is applied to on its own
MaxTextLen == 4
\* blocks of a translate-blocks request given to the background script
MaxWorkerBlocks == 3
\* characters of a text given to normalizeText on its own
MaxStringLen == 4
\* words of each text given to textSimilarity on its own
MaxWords == 3

(***************************************************************************)
(* State                                                                   *)
(***************************************************************************)
VARIABLES
  rev,                \* "matcher" (src/README.md) or "selector" (contentScript.js)
  page,               \* the document as loaded: [tag, role, kids]
  kids,               \* the live child nodes of every element
  classes,            \* classList of every element
  dataset,            \* dataset.vakyaOriginal / vakyaContext of every element
  listeners,          \* event types the script listens to on every element
  sentenceMode,       \* document.body has class vakya-sentence-mode
  translationState,   \* None or Some([elements, originals])
  activeTooltip,      \* None or Some(tooltip)
  tooltipElements,    \* how many popup elements document.body holds
  activeOverlay,      \* None or Some([type, title, settings])
  activeFloatingBar,  \* None or Some([message, type, restore])
  currentClickedWord, \* None or Some(word unit)
  browserTranslator,  \* None or Some(translator)
  browserTranslatorInitialized,
  translatorLanguages,\* None or Some(language pair)
  isModifierHeld,
  hoveredSentence,    \* None or Some(element)
  lastMousePosition,  \* the place of the pointer (0: over no element)
  autoCheck,          \* checkAutoTranslate still awaits the settings
  translateCalls,     \* translatePage calls suspended at an await
  wordFlows,          \* showWordTooltip calls suspended at an await
  analyses,           \* analyzeWordWithButton calls suspended at an await
  barTimers,          \* pending setTimeout(hideFloatingBar) timers
  lastEvent,          \* the event handled last and the flows it started
  mBlocks, mFound,    \* the matcher applied on its own: text blocks, result
  rText, rNodes,      \* renderTranslatedBlock applied on its own: text, children
  tA, tB, tOut,       \* the text functions applied on their own: arguments, result
  sAttempt, sPc,      \* sendMessageWithRetry applied on its own: attempt, position
  sLog, sOutcome,     \* how each send ended; None or Some(what the call returned or threw)
  wKey,               \* background script: the stored API key ("" when none)
  wBlocks,            \* payload.blocks of the translate-blocks request
  wPc,                \* where handleTranslationRequest stands
  wBatches,           \* the translateBatch calls of the request
  wFailedCount,       \* failedCount
  wResponse           \* None or Some(argument of sendResponse)

domVars == <<kids, classes, dataset, listeners>>
uiVars ==
  <<activeTooltip, tooltipElements, activeOverlay, activeFloatingBar,
    currentClickedWord>>
translatorVars ==
  <<browserTranslator, browserTranslatorInitialized, translatorLanguages>>
hoverVars == <<sentenceMode, isModifierHeld, hoveredSentence, lastMousePosition>>
flowVars == <<autoCheck, translateCalls, wordFlows, analyses, barTimers>>
matchVars == <<mBlocks, mFound>>
renderVars == <<rText, rNodes>>
textVars == <<tA, tB, tOut>>
retryVars == <<sAttempt, sPc, sLog, sOutcome>>
\* The units exercised on their own; no handler of the content script
\* touches them
workerVars == <<wKey, wBlocks, wPc, wBatches, wFailedCount, wResponse>>
unitVars == <<matchVars, renderVars, textVars, retryVars, workerVars>>

vars ==
  <<rev, page, kids, classes, dataset, listeners, sentenceMode,
    translationState, activeTooltip, tooltipElements, activeOverlay,
    activeFloatingBar,
    currentClickedWord, browserTranslator, browserTranslatorInitialized,
    translatorLanguages, isModifierHeld, hoveredSentence, lastMousePosition,
    autoCheck, translateCalls, wordFlows, analyses, barTimers, lastEvent,
    mBlocks, mFound, rText, rNodes, tA, tB, tOut, sAttempt, sPc, sLog, sOutcome,
    wKey, wBlocks, wPc, wBatches, wFailedCount, wResponse>>

\* The live document.
Live == [tag |-> page.tag, role |-> page.role, kids |-> kids]

\* The live DOM as the rewriter sees it.
Dom == [kids |-> kids, classes |-> classes, dataset |-> dataset,
        listeners |-> listeners]

\* hideTooltip with its activeTooltip.remove() left out
removeTooltip_KeepElement(n) == n

\* hideTooltip: activeTooltip.remove() if a popup is referred to; n is the
\* number of popup elements in the document
removeTooltip(n) == IF activeTooltip # None THEN n - 1 ELSE n

\* createTooltip: document.body.appendChild(activeTooltip)
appendTooltip(n) == n + 1

NoData == [vakyaOriginal |-> None, vakyaContext |-> None]

\* An event as recorded in lastEvent: its type ("word-click", "click",
\* "analyze-click", "restore", "keyup", "blur", or "other" for every other
\* event), the word
\* unit a word click hit (0, 0 otherwise), and how many word-lookup,
\* original-text and analysis flows the event started.
Event(type, el, idx) ==
  [type |-> type, el |-> el, idx |-> idx,
   word |-> 0, original |-> 0, analysis |-> 0]

Other == Event("other", 0, 0)

Pages == {PageArticle, PageList, PageWrapped}

\* The content script at the end of its top-level code, on one of the pages
Load(pages) ==
  /\ rev \in {"matcher", "selector"}
  /\ page \in pages
  /\ kids = page.kids
  /\ classes = [e \in Elements(page) |-> {}]
  /\ dataset = [e \in Elements(page) |-> NoData]
  /\ listeners = [e \in Elements(page) |-> {}]
  /\ sentenceMode = FALSE
  /\ translationState = None
  /\ activeTooltip = None
  /\ tooltipElements = 0
  /\ activeOverlay = None
  /\ activeFloatingBar = None
  /\ currentClickedWord = None
  /\ browserTranslator = None
  /\ browserTranslatorInitialized = FALSE
  /\ translatorLanguages = None
  /\ isModifierHeld = FALSE
  /\ hoveredSentence = None
  /\ lastMousePosition = 0
  /\ autoCheck = TRUE
  /\ translateCalls = <<>>
  /\ wordFlows = <<>>
  /\ analyses = <<>>
  /\ barTimers = 0
  /\ lastEvent = Other

MatchIdle == mBlocks = <<>> /\ mFound = None

RenderIdle == rText = <<>> /\ rNodes = None

TextIdle == tA = <<>> /\ tB = <<>> /\ tOut = None

RetryIdle == sAttempt = 0 /\ sPc = "idle" /\ sLog = <<>> /\ sOutcome = None

\* The background script with no request to answer
WorkerIdle ==
  /\ wKey = "" /\ wBlocks = <<>> /\ wPc = "idle"
  /\ wBatches = <<>> /\ wFailedCount = 0 /\ wResponse = None

Init ==
  /\ Load(Pages)
  /\ MatchIdle
  /\ RenderIdle
  /\ TextIdle
  /\ RetryIdle
  /\ WorkerIdle

(***************************************************************************)
(* References to word units.  A word unit is the span at place idx among   *)
(* the children of element el; live is FALSE once the span has been        *)
(* removed from el (the element was rendered again or restored), so a      *)
(* reference kept across a rewrite never compares equal to a new span.     *)
(* An element used as a popup anchor is a reference with idx = 0.          *)
(***************************************************************************)
WordUnit(el, idx) ==
  [el |-> el, idx |-> idx, live |-> TRUE, word |-> kids[el][idx].word]

ElementRef(el) == [el |-> el, idx |-> 0, live |-> TRUE, word |-> <<>>]

\* The reference after the children of the elements in els were replaced.
detachRef(ref, els) ==
  IF ref.idx > 0 /\ ref.el \in els THEN [ref EXCEPT !.live = FALSE] ELSE ref

detachOpt(opt, els) == IF opt = None THEN None ELSE Some(detachRef(opt[1], els))

detachButton(btn, els) ==
  IF btn = None THEN None
  ELSE Some([btn[1] EXCEPT !.span = detachRef(@, els),
                           !.onclick = detachOpt(@, els)])

detachTooltip(tip, els) ==
  IF tip = None THEN None
  ELSE Some([tip[1] EXCEPT !.anchor = detachRef(@, els),
                           !.btn = detachButton(@, els)])

detachFlows(flows, els) ==
  [i \in 1..Len(flows) |-> [flows[i] EXCEPT !.span = detachRef(@, els)]]

(***************************************************************************)
(* Reversible rewriter                                                     *)
(***************************************************************************)
\* a || b on optional strings: a unless it is undefined or empty.
orElse(a, b) == IF a # None /\ a[1] # <<>> THEN a ELSE b

\* a || ''
orEmpty(a) == IF a = None THEN <<>> ELSE a[1]

\* el.textContent = text
setTextContent(text) == IF text = <<>> THEN <<>> ELSE <<TextNode(text)>>

\* The handlers applyTranslations adds to an element and restoreOriginal
\* removes: click in both revisions, mouseenter / mouseleave in the selector
\* revision.
sentenceHandlers ==
  IF rev = "selector" THEN {"mouseenter", "mouseleave", "click"} ELSE {"click"}

\* renderTranslatedBlock(element, text) on the DOM.  text is optional: for an
\* undefined text the element is emptied and text.split throws.
renderTranslatedBlock(dom, element, text) ==
  IF text = None THEN [dom EXCEPT !.kids[element] = <<>>]
  ELSE [dom EXCEPT !.kids[element] = renderedNodes(text[1])]

\* One pass of the loop of applyTranslations.
applyOne_KeepOriginalAfterRender(dom, el, block) ==
  LET dom1 == renderTranslatedBlock(dom, el, orElse(block.translated, block.original))
      original == textContent(dom1.kids, el)
      dom2 == [dom1 EXCEPT
                 !.dataset[el] = [vakyaOriginal |-> Some(original),
                                  vakyaContext |-> Some(orEmpty(block.original))],
                 !.classes[el] = @ \cup {"vakya-translated"}]
  IN [dom |-> [dom2 EXCEPT !.listeners[el] = @ \cup sentenceHandlers],
      original |-> original,
      threw |-> orElse(block.translated, block.original) = None]

applyOne(dom, el, block) ==
  LET original == textContent(dom.kids, el)
      dom1 == [dom EXCEPT
                 !.dataset[el] = [vakyaOriginal |-> Some(original),
                                  vakyaContext |-> Some(orEmpty(block.original))],
                 !.classes[el] = @ \cup {"vakya-translated"}]
      text == orElse(block.translated, block.original)
      dom2 == renderTranslatedBlock(dom1, el, text)
  IN IF text = None
     THEN [dom |-> dom2, original |-> original, threw |-> TRUE]
     ELSE [dom |-> [dom2 EXCEPT !.listeners[el] = @ \cup sentenceHandlers],
           original |-> original, threw |-> FALSE]

Min(a, b) == IF a < b THEN a ELSE b

\* applyTranslations(elements, blocks) from pair i on: the DOM it leaves, the
\* originals it captured, the elements it rendered, and whether it threw
\* before it could set translationState.
RECURSIVE applyLoop(_, _, _, _, _, _)
applyLoop(dom, originals, touched, elements, blocks, i) ==
  IF i > Min(Len(elements), Len(blocks))
  THEN [dom |-> dom, originals |-> originals, touched |-> touched,
        threw |-> FALSE]
  ELSE LET r == applyOne(dom, elements[i], blocks[i]) IN
       IF r.threw
       THEN [dom |-> r.dom, originals |-> Append(originals, r.original),
             touched |-> touched \cup {elements[i]}, threw |-> TRUE]
       ELSE applyLoop(r.dom, Append(originals, r.original),
                      touched \cup {elements[i]}, elements, blocks, i + 1)

applyTranslations(dom, elements, blocks) ==
  applyLoop(dom, <<>>, {}, elements, blocks, 1)

\* One pass of the forEach of restoreOriginal.
restoreOne_KeepTag(dom, el, original) ==
  [dom EXCEPT !.listeners[el] = @ \ sentenceHandlers,
              !.kids[el] = setTextContent(original)]

\* A restore step that leaves an element outside the document as it is
restoreOne_SkipDetached(dom, el, original) ==
  IF el # Body /\ Body \notin ancestors(dom.kids, el) THEN dom
  ELSE [dom EXCEPT !.listeners[el] = @ \ sentenceHandlers,
                   !.kids[el] = setTextContent(original),
                   !.classes[el] = @ \ {"vakya-translated"},
                   !.dataset[el] = NoData]

restoreOne(dom, el, original) ==
  [dom EXCEPT !.listeners[el] = @ \ sentenceHandlers,
              !.kids[el] = setTextContent(original),
              !.classes[el] = @ \ {"vakya-translated"},
              !.dataset[el] = NoData]

RECURSIVE restoreLoop(_, _, _, _)
restoreLoop(dom, elements, originals, i) ==
  IF i > Len(elements) THEN dom
  ELSE restoreLoop(restoreOne(dom, elements[i], originals[i]),
                   elements, originals, i + 1)

Range(f) == {f[i] : i \in DOMAIN f}

(***************************************************************************)
(* Page translation                                                        *)
(***************************************************************************)
MinArticleLen == 100

\* What Readability may return for the page: null, or an article with the
\* texts of its block elements (p, h1-h6, li, blockquote) and its length.
ReadabilityResults ==
  {None,
   Some([content |-> <<TextASpaced, TextZ>>, length |-> 120]),
   Some([content |-> <<TextA, TextA>>, length |-> 120]),
   Some([content |-> <<TextA>>, length |-> 41]),
   Some([content |-> <<TextMenu>>, length |-> 120]),
   Some([content |-> <<TextAFar>>, length |-> 120])}

\* extractWithReadability without the test of the article's length
extractWithReadability_AnyLength(article) ==
  IF article = None \/ article[1].content = <<>> THEN None ELSE article

\* extractWithReadability: null unless the article has content and length >= 100.
extractWithReadability(article) ==
  IF article = None \/ article[1].content = <<>>
     \/ article[1].length < MinArticleLen
  THEN None ELSE article

\* extractTextBlocksFromReadability: trimmed texts longer than 30.
extractTextBlocksFromReadability(content) ==
  SelectSeq([i \in 1..Len(content) |-> trim(content[i])],
            LAMBDA text : Len(text) > MinBlockLen)

\* selector revision: findArticleRoot
\* document.querySelector: the first element in document order among those
\* the selector matches
firstOf(d, matching) ==
  LET all == SelectSeq(descendants(d.kids, Body), LAMBDA e : e \in matching) IN
  IF all = <<>> THEN None ELSE Some(all[1])

findArticleRoot(d) ==
  LET article == firstOf(d, {e \in Elements(d) : d.tag[e] = "ARTICLE"})
      main == firstOf(d, {e \in Elements(d) : d.tag[e] = "MAIN"})
      roleMain == firstOf(d, {e \in Elements(d) : d.role[e] = "main"})
      roleArticle == firstOf(d, {e \in Elements(d) : d.role[e] = "article"})
  IN IF article # None THEN article[1]
     ELSE IF main # None THEN main[1]
     ELSE IF roleMain # None THEN roleMain[1]
     ELSE IF roleArticle # None THEN roleArticle[1]
     ELSE Body

MinParagraphLen == 40

\* selector revision: the selector list of collectParagraphs
matchesSelectors(d, e) ==
  LET up == ancestors(d.kids, e) IN
  \/ /\ d.tag[e] \in {"P", "LI", "H1", "H2", "H3", "H4"}
     /\ \E a \in up : d.tag[a] \in {"ARTICLE", "MAIN"}
  \/ /\ d.tag[e] = "P"
     /\ \E a \in up : d.role[a] \in {"main", "article"}

longEnough(d, e) == Len(trim(textContent(d.kids, e))) > MinParagraphLen

\* selector revision: collectParagraphs(root).elements
collectParagraphs(d, root) ==
  LET elements ==
        SelectSeq(descendants(d.kids, root),
                  LAMBDA e : matchesSelectors(d, e) /\ longEnough(d, e))
  IN IF elements # <<>> THEN elements
     ELSE SelectSeq(descendants(d.kids, Body),
                    LAMBDA e : d.tag[e] \in {"P", "H1", "H2", "H3"}
                               /\ longEnough(d, e))

\* originalElements.map(el => el.textContent.trim())
textsOf(d, elements) ==
  [i \in 1..Len(elements) |-> trim(textContent(d.kids, elements[i]))]

Overlay(type, title, settings) ==
  Some([type |-> type, title |-> title, settings |-> settings])

\* showFloatingBar(message, type): the bar it leaves
FloatingBar(message, type, state) ==
  Some([message |-> message, type |-> type, restore |-> state # None])

\* showFloatingBar starts a hide timer for a success message without a session
barTimerStarted(type, state) == type = "success" /\ state = None

\* translatePage (matcher revision) going on with no matched element
translatePageStart_NoMatchError(article) ==
  IF rev = "matcher"
  THEN
    LET articleData == extractWithReadability(article) IN
    IF articleData = None
    THEN [overlay |-> Overlay("error", "No content found", FALSE),
          elements |-> <<>>]
    ELSE
      LET textBlocks == extractTextBlocksFromReadability(articleData[1].content) IN
      IF textBlocks = <<>>
      THEN [overlay |-> Overlay("error", "No readable content", FALSE),
            elements |-> <<>>]
      ELSE [overlay |-> Overlay("loading", "Translating...", FALSE),
            elements |-> findOriginalElementsByText(Live, textBlocks)]
  ELSE
    LET elements == collectParagraphs(Live, findArticleRoot(Live)) IN
    IF elements = <<>>
    THEN [overlay |-> Overlay("error", "No readable content", FALSE),
          elements |-> <<>>]
    ELSE [overlay |-> Overlay("loading", "Translating...", FALSE),
          elements |-> elements]

\* What translatePage does up to its first await, for a given Readability
\* result: the overlay it shows and the elements it asks translations for.
translatePageStart(article) ==
  IF rev = "matcher"
  THEN
    LET articleData == extractWithReadability(article) IN
    IF articleData = None
    THEN [overlay |-> Overlay("error", "No content found", FALSE),
          elements |-> <<>>]
    ELSE
      LET textBlocks == extractTextBlocksFromReadability(articleData[1].content) IN
      IF textBlocks = <<>>
      THEN [overlay |-> Overlay("error", "No readable content", FALSE),
            elements |-> <<>>]
      ELSE
        LET originalElements == findOriginalElementsByText(Live, textBlocks) IN
        IF originalElements = <<>>
        THEN [overlay |-> Overlay("error", "Could not match content", FALSE),
              elements |-> <<>>]
        ELSE [overlay |-> Overlay("loading", "Translating...", FALSE),
              elements |-> originalElements]
  ELSE
    LET elements == collectParagraphs(Live, findArticleRoot(Live)) IN
    IF elements = <<>>
    THEN [overlay |-> Overlay("error", "No readable content", FALSE),
          elements |-> <<>>]
    ELSE [overlay |-> Overlay("loading", "Translating...", FALSE),
          elements |-> elements]

TranslateCall(elements) ==
  [stage |-> "response", elements |-> elements,
   texts |-> textsOf(Live, elements), failedBatches |-> 0]

\* translatePage without its guard on translationState
translatePage_NoGuard(article) ==
  /\ Len(translateCalls) < MaxTranslateCalls
  /\ LET start == translatePageStart(article) IN
     /\ activeOverlay' = start.overlay
     /\ translateCalls' =
          IF start.elements = <<>> THEN translateCalls
          ELSE Append(translateCalls, TranslateCall(start.elements))
     /\ UNCHANGED <<activeFloatingBar, barTimers>>
  /\ lastEvent' = Other
  /\ UNCHANGED <<rev, page, domVars, translationState, activeTooltip,
                 tooltipElements,
                 currentClickedWord, translatorVars, hoverVars, wordFlows,
                 analyses, unitVars>>

\* translatePage up to its first await (or its return); article is what
\* Readability returns for the page (not used by the selector revision)
translatePage(article) ==
  /\ translationState # None \/ Len(translateCalls) < MaxTranslateCalls
  /\ IF translationState # None
     THEN /\ activeFloatingBar' =
               FloatingBar("Page already translated", "info", translationState)
          /\ UNCHANGED <<activeOverlay, translateCalls, barTimers>>
     ELSE LET start == translatePageStart(article) IN
          /\ activeOverlay' = start.overlay
          /\ translateCalls' =
               IF start.elements = <<>> THEN translateCalls
               ELSE Append(translateCalls, TranslateCall(start.elements))
          /\ UNCHANGED <<activeFloatingBar, barTimers>>
  /\ lastEvent' = Other
  /\ UNCHANGED <<rev, page, domVars, translationState, activeTooltip,
                 tooltipElements,
                 currentClickedWord, translatorVars, hoverVars, wordFlows,
                 analyses, unitVars>>

\* handleMessage: a translate-page message from the popup
HandleMessage(article) ==
  /\ translatePage(article)
  /\ UNCHANGED autoCheck

\* checkAutoTranslate once the settings have been read
CheckAutoTranslate(autoTranslate, article) ==
  /\ autoCheck
  /\ autoCheck' = FALSE
  /\ IF autoTranslate
     THEN translatePage(article)
     ELSE /\ lastEvent' = Other
          /\ UNCHANGED <<rev, page, domVars, translationState, uiVars,
                         translatorVars, hoverVars, translateCalls,
                         wordFlows, analyses, barTimers, unitVars>>

(***************************************************************************)
(* The translate-blocks response                                           *)
(***************************************************************************)
\* Translations the upstream service returns: "An ort." and "- zu's".
TranslatedFirst == <<"A", "n", " ", "o", "r", "t", ".">>
TranslatedOther == <<"-", " ", "z", "u", "'", "s">>

translationOf(i) == IF i = 1 THEN TranslatedFirst ELSE TranslatedOther

Block(original, translated) == [original |-> original, translated |-> translated]

\* The result blocks the background script may answer for the texts sent:
\* every block translated; every block as the fallback of a failed batch
\* (translated = original); fewer blocks than texts; a last block that
\* carries neither a translation nor an original; blocks that carry a
\* translation and no original.
ResultKinds == {"translated", "fallback", "fewer", "malformed", "unechoed"}

resultBlocks(texts, kind) ==
  LET n == Len(texts) IN
  CASE kind = "translated" ->
         [failedBatches |-> 0,
          blocks |-> [i \in 1..n |-> Block(Some(texts[i]), Some(translationOf(i)))]]
    [] kind = "fallback" ->
         [failedBatches |-> 1,
          blocks |-> [i \in 1..n |-> Block(Some(texts[i]), Some(texts[i]))]]
    [] kind = "fewer" ->
         [failedBatches |-> 0,
          blocks |-> [i \in 1..(n - 1) |->
                        Block(Some(texts[i]), Some(translationOf(i)))]]
    [] kind = "malformed" ->
         [failedBatches |-> 0,
          blocks |-> [i \in 1..n |->
                        IF i < n THEN Block(Some(texts[i]), Some(translationOf(i)))
                        ELSE Block(None, Some(<<>>))]]
    [] kind = "unechoed" ->
         \* the upstream blocks carry a translation and no original, and
         \* cleanedBlocks passes block.original on as it is
         [failedBatches |-> 0,
          blocks |-> [i \in 1..n |-> Block(None, Some(translationOf(i)))]]

\* Error messages translatePage can catch: the background script's answer
\* without a credential, a failed sendMessage, and the TypeError of
\* text.split on an undefined text.
MissingKeyMessage == "Missing OpenAI API key. Set it in the options page."
ConnectionMessage == "Could not establish connection. Receiving end does not exist."
TypeErrorMessage == "Cannot read properties of undefined (reading 'split')"

ErrorMessages == {MissingKeyMessage, ConnectionMessage}

\* handleTranslationError: whether the overlay offers the settings button
\* (the message includes 'API key', or '401' or 'Invalid' and neither '429'
\* nor 'rate').
offersSettings_Never(message) == FALSE

offersSettings(message) == message = MissingKeyMessage

handleTranslationError(message) == Overlay("error", message, offersSettings(message))

RemoveAt(seq, i) == SubSeq(seq, 1, i - 1) \o SubSeq(seq, i + 1, Len(seq))

\* translatePage call i catches an error with the given message
catchTranslateError(i, message) ==
  /\ activeOverlay' = handleTranslationError(message)
  /\ translateCalls' = RemoveAt(translateCalls, i)
  /\ lastEvent' = Other
  /\ UNCHANGED <<rev, page, domVars, translationState, activeTooltip,
                 tooltipElements,
                 activeFloatingBar, currentClickedWord, translatorVars,
                 hoverVars, autoCheck, wordFlows, analyses, barTimers,
                 matchVars, renderVars, textVars, retryVars>>

\* The response is an error (ok: false, or sendMessage threw).
TranslateFailed(i, message) ==
  /\ i \in 1..Len(translateCalls)
  /\ translateCalls[i].stage = "response"
  /\ catchTranslateError(i, message)
  /\ UNCHANGED workerVars

\* translatePage call i from an ok response with the given result to the
\* await of getSettings: hideOverlay, applyTranslations.
applyResult(i, result) ==
  /\ LET r == applyTranslations(Dom, translateCalls[i].elements, result.blocks)
     IN /\ kids' = r.dom.kids
        /\ classes' = r.dom.classes
        /\ dataset' = r.dom.dataset
        /\ listeners' = r.dom.listeners
        /\ activeTooltip' = detachTooltip(activeTooltip, r.touched)
        /\ UNCHANGED tooltipElements
        /\ currentClickedWord' = detachOpt(currentClickedWord, r.touched)
        /\ wordFlows' = detachFlows(wordFlows, r.touched)
        /\ analyses' = detachFlows(analyses, r.touched)
        /\ IF r.threw
           THEN /\ activeOverlay' = handleTranslationError(TypeErrorMessage)
                /\ translateCalls' = RemoveAt(translateCalls, i)
                /\ UNCHANGED translationState
           ELSE /\ activeOverlay' = None
                /\ translationState' =
                     Some([elements |-> SubSeq(translateCalls[i].elements,
                                               1, Len(r.originals)),
                           originals |-> r.originals])
                /\ translateCalls' =
                     [translateCalls EXCEPT
                        ![i].stage = "settings",
                        ![i].failedBatches = result.failedBatches]
  /\ lastEvent' = Other
  /\ UNCHANGED <<rev, page, activeFloatingBar, translatorVars, hoverVars,
                 autoCheck, barTimers, matchVars, renderVars, textVars, retryVars>>

\* The response is ok and carries result blocks of the given kind.
TranslateResponse(i, kind) ==
  /\ i \in 1..Len(translateCalls)
  /\ translateCalls[i].stage = "response"
  /\ applyResult(i, resultBlocks(translateCalls[i].texts, kind))
  /\ UNCHANGED workerVars

LanguagePair == "German>English"

\* setTimeout(hideFloatingBar, ...): the timers pending after one more is set
timerSet(n) == IF n < MaxTimers THEN n + 1 ELSE n

\* translatePage after getSettings: translatorLanguages, showFloatingBar
TranslateSettled(i) ==
  /\ i \in 1..Len(translateCalls)
  /\ translateCalls[i].stage = "settings"
  /\ LET type == IF translateCalls[i].failedBatches > 0
                 THEN "warning" ELSE "success"
     IN /\ activeFloatingBar' = FloatingBar("Translated", type, translationState)
        /\ barTimers' = IF barTimerStarted(type, translationState)
                        THEN timerSet(barTimers) ELSE barTimers
  /\ translatorLanguages' = Some(LanguagePair)
  /\ translateCalls' = RemoveAt(translateCalls, i)
  /\ lastEvent' = Other
  /\ UNCHANGED <<rev, page, domVars, translationState, activeTooltip,
                 tooltipElements,
                 activeOverlay, currentClickedWord, browserTranslator,
                 browserTranslatorInitialized, hoverVars, autoCheck,
                 wordFlows, analyses, unitVars>>

(***************************************************************************)
(* Restore                                                                 *)
(***************************************************************************)
markRestored(flows) == [i \in 1..Len(flows) |-> [flows[i] EXCEPT !.session = "restored"]]

dropButtons(flows) == [i \in 1..Len(flows) |-> [flows[i] EXCEPT !.btnLive = FALSE]]

\* restoreOriginal without its guard on translationState: without a session
\* it goes on as for a session that recorded no element
restoreOriginal_NoGuard ==
  /\ LET elements == IF translationState = None THEN <<>>
                     ELSE translationState[1].elements
         originals == IF translationState = None THEN <<>>
                      ELSE translationState[1].originals
         dom == restoreLoop(Dom, elements, originals, 1)
     IN /\ kids' = dom.kids
        /\ classes' = dom.classes
        /\ dataset' = dom.dataset
        /\ listeners' = dom.listeners
        /\ wordFlows' = markRestored(detachFlows(wordFlows, Range(elements)))
        /\ analyses' = dropButtons(detachFlows(analyses, Range(elements)))
  /\ translationState' = None
  /\ browserTranslator' = None
  /\ browserTranslatorInitialized' = FALSE
  /\ translatorLanguages' = None
  /\ activeTooltip' = None
  /\ tooltipElements' = removeTooltip(tooltipElements)
  /\ currentClickedWord' = None
  /\ activeFloatingBar' = FloatingBar("Original restored", "info", None)
  /\ barTimers' = timerSet(barTimers)
  /\ lastEvent' = Event("restore", 0, 0)
  /\ UNCHANGED <<rev, page, activeOverlay, hoverVars, autoCheck,
                 translateCalls, unitVars>>

\* restoreOriginal: the click listener of the bar's Restore button, and the
\* restore operation called directly.
restoreOriginal ==
  IF translationState = None
  THEN /\ lastEvent' = Event("restore", 0, 0)
       /\ UNCHANGED <<rev, page, domVars, translationState, uiVars,
                      translatorVars, hoverVars, flowVars, unitVars>>
  ELSE
    /\ LET elements == translationState[1].elements
           dom == restoreLoop(Dom, elements, translationState[1].originals, 1)
       IN /\ kids' = dom.kids
          /\ classes' = dom.classes
          /\ dataset' = dom.dataset
          /\ listeners' = dom.listeners
          /\ wordFlows' = markRestored(detachFlows(wordFlows, Range(elements)))
          /\ analyses' = dropButtons(detachFlows(analyses, Range(elements)))
    /\ translationState' = None
    /\ browserTranslator' = None
    /\ browserTranslatorInitialized' = FALSE
    /\ translatorLanguages' = None
    /\ activeTooltip' = None
    /\ tooltipElements' = removeTooltip(tooltipElements)
    /\ currentClickedWord' = None
    /\ activeFloatingBar' = FloatingBar("Original restored", "info", None)
    /\ barTimers' = timerSet(barTimers)
    /\ lastEvent' = Event("restore", 0, 0)
    /\ UNCHANGED <<rev, page, activeOverlay, hoverVars, autoCheck,
                   translateCalls, unitVars>>

\* setTimeout(hideFloatingBar, ...) fires
BarTimerFires ==
  /\ barTimers > 0
  /\ barTimers' = barTimers - 1
  /\ activeFloatingBar' = None
  /\ lastEvent' = Other
  /\ UNCHANGED <<rev, page, domVars, translationState, activeTooltip,
                 tooltipElements,
                 activeOverlay, currentClickedWord, translatorVars, hoverVars,
                 autoCheck, translateCalls, wordFlows, analyses, unitVars>>

(***************************************************************************)
(* Hit testing                                                             *)
(***************************************************************************)
attached(e) == e = Body \/ Body \in ancestors(kids, e)

\* The places the pointer can be: 0 (over no element) and a point over the
\* text of an element of the page as loaded.
Positions ==
  {0} \cup {e \in Elements(page) :
              \E i \in 1..Len(page.kids[e]) : page.kids[e][i].k = "text"}

\* The element now showing at a place: the element itself while it is in the
\* document, else the nearest ancestor (as loaded) that still is.
RECURSIVE showingAt(_)
showingAt(e) ==
  IF attached(e) THEN e
  ELSE showingAt(parentElement(page.kids, e)[1])

\* document.elementFromPoint: None over no element; 0 stands for the overlay,
\* which covers the viewport while it is shown.
elementFromPoint(pos) ==
  IF pos = 0 THEN None
  ELSE IF activeOverlay # None THEN Some(0)
  ELSE Some(showingAt(pos))

\* The member of a set of elements on one root path that is nearest to the
\* start of the path: every other member is one of its ancestors.
nearest(chain) ==
  CHOOSE a \in chain : \A b \in chain : b = a \/ b \in ancestors(kids, a)

\* el.closest('.vakya-translated') in given class lists
closestTranslated(cls, e) ==
  LET chain == {a \in ({e} \cup ancestors(kids, e)) \cap DOMAIN cls :
                  "vakya-translated" \in cls[a]}
  IN IF e = 0 \/ chain = {} THEN None ELSE Some(nearest(chain))

\* The first element on the path from e to the root that listens to an
\* event type.
listenerOnPath(e, type) ==
  LET chain == {a \in ({e} \cup ancestors(kids, e)) \cap DOMAIN listeners :
                  type \in listeners[a]}
  IN IF e = 0 \/ chain = {} THEN None ELSE Some(nearest(chain))

(***************************************************************************)
(* Sentence mode: modifier keys and hover                                  *)
(***************************************************************************)
\* A clearSentenceHover that forgets the element without removing its class
clearSentenceHover_KeepClass(cls, hovered) == cls

\* clearSentenceHover on class lists
clearSentenceHover(cls, hovered) ==
  IF hovered = None THEN cls
  ELSE [cls EXCEPT ![hovered[1]] = @ \ {"vakya-sentence-hover"}]

\* updateSentenceHoverAtPoint (matcher revision): [classes, hovered] after it
updateSentenceHoverAtPoint(pos) ==
  LET el == elementFromPoint(pos)
      translatedEl == IF el = None THEN None ELSE closestTranslated(classes, el[1])
  IN IF el = None \/ translatedEl = None
     THEN [classes |-> clearSentenceHover(classes, hoveredSentence),
           hovered |-> None]
     ELSE IF hoveredSentence # translatedEl
          THEN [classes |->
                  [clearSentenceHover(classes, hoveredSentence)
                     EXCEPT ![translatedEl[1]] = @ \cup {"vakya-sentence-hover"}],
                hovered |-> translatedEl]
          ELSE [classes |-> classes, hovered |-> hoveredSentence]

\* handleSentenceLeave then handleSentenceEnter (selector revision) for a
\* pointer that moves from place `from` to place `to`
enterLeave(from, to) ==
  LET old == IF elementFromPoint(from) = None THEN None
             ELSE listenerOnPath(elementFromPoint(from)[1], "mouseleave")
      new == IF elementFromPoint(to) = None THEN None
             ELSE listenerOnPath(elementFromPoint(to)[1], "mouseenter")
      afterLeave ==
        IF old = None \/ old = new \/ ~isModifierHeld
        THEN [classes |-> classes, hovered |-> hoveredSentence]
        ELSE [classes |-> [classes EXCEPT ![old[1]] = @ \ {"vakya-sentence-hover"}],
              hovered |-> IF hoveredSentence = old THEN None ELSE hoveredSentence]
  IN IF new = None \/ old = new \/ ~isModifierHeld
     THEN afterLeave
     ELSE [classes |->
             [clearSentenceHover(afterLeave.classes, afterLeave.hovered)
                EXCEPT ![new[1]] = @ \cup {"vakya-sentence-hover"}],
           hovered |-> new]

\* The pointer moves to another place.
MouseMove(pos) ==
  /\ pos \in Positions
  /\ pos # lastMousePosition
  /\ lastMousePosition' = pos
  /\ LET h == IF rev = "matcher"
              THEN (IF isModifierHeld THEN updateSentenceHoverAtPoint(pos)
                    ELSE [classes |-> classes, hovered |-> hoveredSentence])
              ELSE enterLeave(lastMousePosition, pos)
     IN /\ classes' = h.classes
        /\ hoveredSentence' = h.hovered
  /\ lastEvent' = Other
  /\ UNCHANGED <<rev, page, kids, dataset, listeners, sentenceMode,
                 isModifierHeld, translationState, uiVars, translatorVars,
                 flowVars, unitVars>>

\* keydown listener
KeyDown(key) ==
  /\ key \in {"Escape", "Meta", "Control"}
  /\ IF key = "Escape" /\ activeTooltip # None
     THEN /\ activeTooltip' = None
          /\ tooltipElements' = removeTooltip(tooltipElements)
          /\ currentClickedWord' = None
          /\ analyses' = dropButtons(analyses)
     ELSE UNCHANGED <<activeTooltip, tooltipElements, currentClickedWord,
                      analyses>>
  /\ IF key \in {"Meta", "Control"} /\ ~isModifierHeld
     THEN /\ isModifierHeld' = TRUE
          /\ sentenceMode' = TRUE
          /\ LET h == IF rev = "matcher"
                      THEN updateSentenceHoverAtPoint(lastMousePosition)
                      ELSE [classes |-> classes, hovered |-> hoveredSentence]
             IN /\ classes' = h.classes
                /\ hoveredSentence' = h.hovered
     ELSE UNCHANGED <<isModifierHeld, sentenceMode, classes, hoveredSentence>>
  /\ lastEvent' = Other
  /\ UNCHANGED <<rev, page, kids, dataset, listeners, lastMousePosition,
                 translationState, activeOverlay, activeFloatingBar,
                 translatorVars, autoCheck, translateCalls, wordFlows,
                 barTimers, unitVars>>

\* The body of the keyup (Meta / Control) and blur listeners, without
\* clearSentenceHover
releaseModifier_KeepHover(type) ==
  /\ isModifierHeld' = FALSE
  /\ sentenceMode' = FALSE
  /\ UNCHANGED <<classes, hoveredSentence>>
  /\ lastEvent' = Event(type, 0, 0)
  /\ UNCHANGED <<rev, page, kids, dataset, listeners, lastMousePosition,
                 translationState, uiVars, translatorVars, flowVars,
                 unitVars>>

\* The body of the keyup (Meta / Control) and blur listeners
releaseModifier(type) ==
  /\ isModifierHeld' = FALSE
  /\ sentenceMode' = FALSE
  /\ classes' = clearSentenceHover(classes, hoveredSentence)
  /\ hoveredSentence' = None
  /\ lastEvent' = Event(type, 0, 0)
  /\ UNCHANGED <<rev, page, kids, dataset, listeners, lastMousePosition,
                 translationState, uiVars, translatorVars, flowVars,
                 unitVars>>

\* keyup of Meta or Control
KeyUp == releaseModifier("keyup")

\* blur of the window
Blur == releaseModifier("blur")

(***************************************************************************)
(* Popups                                                                  *)
(***************************************************************************)
\* The popup: what it is anchored at, what it shows (kind), the word in its
\* header, the text of an original-text popup, and its analyze button.
Tooltip(anchor, kind, word, text, btn) ==
  Some([anchor |-> anchor, kind |-> kind, word |-> word, text |-> text,
        btn |-> btn])

\* A popup content whose button was never attached
AnalyzeButton_Missing(span) == None

\* The button of a fresh popup content after attachAnalyzeButton(span): one
\* click listener, no onclick handler, enabled.
AnalyzeButton(span) ==
  Some([span |-> span, onclick |-> None, disabled |-> FALSE,
        label |-> "Analyze Word"])

\* createTooltip(content, span) when no popup is open, activeTooltip.innerHTML
\* = content when one is: the popup keeps its anchor in the second case.
showContent(tip, span, kind, btn) ==
  IF tip = None THEN Tooltip(span, kind, span.word, <<>>, btn)
  ELSE Some([tip[1] EXCEPT !.kind = kind, !.word = span.word, !.text = <<>>,
                           !.btn = btn])

\* showOriginalTooltip(el): hideTooltip, createTooltip with the stored original
showOriginalTooltip(el) ==
  LET own == dataset[el].vakyaOriginal
      up == {a \in {el} \cup ancestors(kids, el) :
               dataset[a].vakyaOriginal # None}
      original == IF own # None /\ own[1] # <<>> THEN own[1]
                  ELSE IF up # {} THEN orEmpty(dataset[nearest(up)].vakyaOriginal)
                  ELSE <<>>
  IN Tooltip(ElementRef(el), "original", <<>>, original, None)

\* An initialization test that forgets the flag
startsInit_IgnoreFlag == translatorLanguages # None

\* showWordTooltip awaits initBrowserTranslator
startsInit == ~browserTranslatorInitialized /\ translatorLanguages # None

\* showWordTooltip(span) up to its first await or its end: hideTooltip, then
\* the lazy initialization, the on-device translation, or the button alone.
showWordTooltip(span) ==
  /\ currentClickedWord' = None
  /\ tooltipElements' = appendTooltip(removeTooltip(tooltipElements))
  /\ analyses' = dropButtons(analyses)
  /\ IF startsInit
     THEN /\ Len(wordFlows) < MaxWordFlows
          /\ browserTranslatorInitialized' = TRUE
          /\ activeTooltip' = showContent(None, span, "setup", None)
          /\ wordFlows' = Append(wordFlows,
                                 [span |-> span, stage |-> "init",
                                  session |-> "current"])
     ELSE IF browserTranslator # None
     THEN /\ Len(wordFlows) < MaxWordFlows
          /\ activeTooltip' = showContent(None, span, "translating", None)
          /\ wordFlows' = Append(wordFlows,
                                 [span |-> span, stage |-> "translate",
                                  session |-> "current"])
          /\ UNCHANGED browserTranslatorInitialized
     ELSE /\ activeTooltip' = showContent(None, span, "button", AnalyzeButton(span))
          /\ UNCHANGED <<browserTranslatorInitialized, wordFlows>>

\* handleWordClick(event) for a click with the modifier not held
handleWordClick(span) ==
  /\ ~isModifierHeld
  /\ IF currentClickedWord = Some(span) /\ activeTooltip # None
     THEN /\ activeTooltip' = None
          /\ tooltipElements' = removeTooltip(tooltipElements)
          /\ currentClickedWord' = None
          /\ analyses' = dropButtons(analyses)
          /\ UNCHANGED <<browserTranslatorInitialized, wordFlows>>
     ELSE showWordTooltip(span)

\* The document's click listener: whether it hides the popup for a click on
\* target (an element, 0 for the overlay, the bar or another place outside).
closesTooltip(target) ==
  /\ activeTooltip # None
  /\ closestTranslated(classes, target) = None

\* handleSentenceClick(event) on the element it is attached to: whether it
\* handles the click (and stops its propagation), and the popup it leaves.
handleSentenceClick_NoGuard(el) ==
  [handled |-> TRUE, tooltip |-> showOriginalTooltip(el),
   elements |-> appendTooltip(removeTooltip(tooltipElements))]

handleSentenceClick(el) ==
  IF ~isModifierHeld
  THEN [handled |-> FALSE, tooltip |-> activeTooltip,
        elements |-> tooltipElements]
  ELSE [handled |-> TRUE, tooltip |-> showOriginalTooltip(el),
        elements |-> appendTooltip(removeTooltip(tooltipElements))]

\* A click on a word unit.  In sentence mode the style sheet takes word
\* units out of hit testing, and the overlay covers the page while shown.
ClickWord(el, idx) ==
  /\ el \in Elements(page) \ {Body}
  /\ attached(el)
  /\ idx \in 1..Len(kids[el])
  /\ kids[el][idx].k = "word"
  /\ ~sentenceMode
  /\ activeOverlay = None
  /\ IF isModifierHeld
     THEN \* handleWordClick returns; the click bubbles to handleSentenceClick
          /\ "click" \in listeners[el]
          /\ activeTooltip' = handleSentenceClick(el).tooltip
          /\ tooltipElements' = handleSentenceClick(el).elements
          /\ currentClickedWord' = None
          /\ analyses' = dropButtons(analyses)
          /\ lastEvent' = [Event("word-click", el, idx) EXCEPT !.original = 1]
          /\ UNCHANGED <<browserTranslatorInitialized, wordFlows>>
     ELSE /\ handleWordClick(WordUnit(el, idx))
          /\ lastEvent' =
               [Event("word-click", el, idx) EXCEPT
                  !.word = IF currentClickedWord = Some(WordUnit(el, idx))
                              /\ activeTooltip # None THEN 0 ELSE 1]
  /\ UNCHANGED <<rev, page, domVars, translationState, activeOverlay,
                 activeFloatingBar, browserTranslator, translatorLanguages,
                 hoverVars, autoCheck, translateCalls, barTimers, unitVars>>

\* A click on an element of the page, not on a word unit: handleSentenceClick
\* of the nearest listening element, then (unless stopped) the document's
\* listener.
ClickElement(el) ==
  /\ el \in (Positions \ {0}) \cup {Body}
  /\ attached(el)
  /\ activeOverlay = None
  /\ LET listening == listenerOnPath(el, "click") IN
     IF listening # None /\ handleSentenceClick(listening[1]).handled
     THEN /\ activeTooltip' = handleSentenceClick(listening[1]).tooltip
          /\ tooltipElements' = handleSentenceClick(listening[1]).elements
          /\ currentClickedWord' = None
          /\ analyses' = dropButtons(analyses)
          /\ lastEvent' = [Event("click", 0, 0) EXCEPT !.original = 1]
     ELSE /\ IF closesTooltip(el)
             THEN /\ activeTooltip' = None
                  /\ tooltipElements' = removeTooltip(tooltipElements)
                  /\ currentClickedWord' = None
                  /\ analyses' = dropButtons(analyses)
             ELSE UNCHANGED <<activeTooltip, tooltipElements,
                              currentClickedWord, analyses>>
          /\ lastEvent' = Event("click", 0, 0)
  /\ UNCHANGED <<rev, page, domVars, translationState, activeOverlay,
                 activeFloatingBar, translatorVars, hoverVars, autoCheck,
                 translateCalls, wordFlows, barTimers, unitVars>>

\* A click on the overlay's Dismiss or Open Settings button: hideOverlay,
\* then the document's listener.
ClickOverlayButton ==
  /\ activeOverlay # None
  /\ activeOverlay[1].type = "error"
  /\ activeOverlay' = None
  /\ activeTooltip' = None
  /\ tooltipElements' = removeTooltip(tooltipElements)
  /\ currentClickedWord' = IF activeTooltip # None THEN None ELSE currentClickedWord
  /\ analyses' = IF activeTooltip # None THEN dropButtons(analyses) ELSE analyses
  /\ lastEvent' = Other
  /\ UNCHANGED <<rev, page, domVars, translationState, activeFloatingBar,
                 translatorVars, hoverVars, autoCheck, translateCalls,
                 wordFlows, barTimers, unitVars>>

\* A click on the bar's close button: hideFloatingBar, then the document's
\* listener.
ClickBarClose ==
  /\ activeFloatingBar # None
  /\ activeFloatingBar' = None
  /\ activeTooltip' = None
  /\ tooltipElements' = removeTooltip(tooltipElements)
  /\ currentClickedWord' = IF activeTooltip # None THEN None ELSE currentClickedWord
  /\ analyses' = IF activeTooltip # None THEN dropButtons(analyses) ELSE analyses
  /\ lastEvent' = Other
  /\ UNCHANGED <<rev, page, domVars, translationState, activeOverlay,
                 translatorVars, hoverVars, autoCheck, translateCalls,
                 wordFlows, barTimers, unitVars>>

(***************************************************************************)
(* The word-lookup flow after its awaits                                   *)
(***************************************************************************)
\* initBrowserTranslator settles (ok: a translator was created), and
\* showWordTooltip goes on to its next await or its end.
InitDone(i, ok) ==
  /\ i \in 1..Len(wordFlows)
  /\ wordFlows[i].stage = "init"
  /\ LET flow == wordFlows[i]
         translator == IF ok THEN Some([session |-> flow.session])
                       ELSE browserTranslator
     IN /\ browserTranslator' = translator
        /\ IF activeTooltip = None
           THEN /\ wordFlows' = RemoveAt(wordFlows, i)
                /\ UNCHANGED <<activeTooltip, analyses>>
           ELSE IF translator # None
           THEN /\ activeTooltip' =
                     showContent(activeTooltip, flow.span, "translating", None)
                /\ wordFlows' = [wordFlows EXCEPT ![i].stage = "translate"]
                /\ analyses' = dropButtons(analyses)
           ELSE /\ activeTooltip' =
                     showContent(activeTooltip, flow.span, "button",
                                 AnalyzeButton(flow.span))
                /\ wordFlows' = RemoveAt(wordFlows, i)
                /\ analyses' = dropButtons(analyses)
  /\ lastEvent' = Other
  /\ UNCHANGED <<rev, page, domVars, translationState, tooltipElements,
                 activeOverlay,
                 activeFloatingBar, currentClickedWord,
                 browserTranslatorInitialized, translatorLanguages, hoverVars,
                 autoCheck, translateCalls, barTimers, unitVars>>

\* translateWithBrowser settles (translated: it returned a translation, else
\* null), and showWordTooltip runs to its end.
BrowserTranslateDone(i, translated) ==
  /\ i \in 1..Len(wordFlows)
  /\ wordFlows[i].stage = "translate"
  /\ IF activeTooltip = None
     THEN UNCHANGED <<activeTooltip, analyses>>
     ELSE /\ activeTooltip' =
               showContent(activeTooltip, wordFlows[i].span,
                           IF translated THEN "translation" ELSE "button",
                           AnalyzeButton(wordFlows[i].span))
          /\ analyses' = dropButtons(analyses)
  /\ wordFlows' = RemoveAt(wordFlows, i)
  /\ lastEvent' = Other
  /\ UNCHANGED <<rev, page, domVars, translationState, tooltipElements,
                 activeOverlay,
                 activeFloatingBar, currentClickedWord, translatorVars,
                 hoverVars, autoCheck, translateCalls, barTimers, unitVars>>

(***************************************************************************)
(* Deeper analysis                                                         *)
(***************************************************************************)
\* span.closest('[data-vakya-context]')?.dataset.vakyaContext || ''
contextOf(span) ==
  IF span.live THEN orEmpty(dataset[span.el].vakyaContext) ELSE <<>>

\* analyzeWordWithButton(span) up to its await, as a pending call; sent is
\* the number of analyze-word messages the call has sent
Analysis(span) ==
  [span |-> span, word |-> span.word, context |-> contextOf(span),
   btnLive |-> TRUE, sent |-> 1]

\* A click on the popup's analyze button: its click listener and, when set,
\* its onclick handler each call analyzeWordWithButton.
ClickAnalyze ==
  /\ activeTooltip # None
  /\ activeTooltip[1].btn # None
  /\ ~activeTooltip[1].btn[1].disabled
  /\ LET btn == activeTooltip[1].btn[1]
         calls == <<Analysis(btn.span)>> \o
                  (IF btn.onclick = None THEN <<>>
                   ELSE <<Analysis(btn.onclick[1])>>)
     IN /\ Len(analyses) + Len(calls) <= MaxAnalyses
        /\ analyses' = analyses \o calls
        /\ activeTooltip' =
             Some([activeTooltip[1] EXCEPT
                     !.btn = Some([btn EXCEPT !.disabled = TRUE,
                                              !.label = "Analyzing..."])])
        /\ lastEvent' = [Event("analyze-click", 0, 0) EXCEPT
                           !.analysis = Len(calls)]
  /\ UNCHANGED <<rev, page, domVars, translationState, tooltipElements,
                 activeOverlay,
                 activeFloatingBar, currentClickedWord, translatorVars,
                 hoverVars, autoCheck, translateCalls, wordFlows, barTimers,
                 unitVars>>

\* The analysis response arrives (ok: with a result): updateTooltipWithAnalysis,
\* or the catch branch that turns the button into a retry control.
AnalysisDone(i, ok) ==
  /\ i \in 1..Len(analyses)
  /\ LET call == analyses[i]
         rest == RemoveAt(analyses, i)
     IN IF ok
        THEN IF activeTooltip = None
             THEN /\ analyses' = rest
                  /\ UNCHANGED activeTooltip
             ELSE /\ activeTooltip' =
                       Some([activeTooltip[1] EXCEPT
                               !.kind = "analysis", !.word = call.word,
                               !.text = <<>>, !.btn = None])
                  /\ analyses' = dropButtons(rest)
        ELSE /\ analyses' = rest
             /\ IF call.btnLive
                THEN activeTooltip' =
                       Some([activeTooltip[1] EXCEPT
                               !.btn = Some([activeTooltip[1].btn[1] EXCEPT
                                               !.label = "Error - try again",
                                               !.disabled = FALSE,
                                               !.onclick = Some(call.span)])])
                ELSE UNCHANGED activeTooltip
  /\ lastEvent' = Other
  /\ UNCHANGED <<rev, page, domVars, translationState, tooltipElements,
                 activeOverlay,
                 activeFloatingBar, currentClickedWord, translatorVars,
                 hoverVars, autoCheck, translateCalls, wordFlows, barTimers,
                 unitVars>>

\* sendMessageWithRetry(message, retries = 2) of the matcher revision
Retries == 2

\* chrome.runtime.sendMessage of an analysis rejects with a connection error.
\* The matcher revision sends through sendMessageWithRetry, which waits and
\* sends the message again up to Retries times before it throws; the
\* selector revision calls sendMessage itself, and the error is caught by
\* analyzeWordWithButton as any other failure.
AnalysisConnectionFails(i) ==
  /\ i \in 1..Len(analyses)
  /\ IF rev = "matcher" /\ analyses[i].sent <= Retries
     THEN /\ analyses' = [analyses EXCEPT ![i].sent = @ + 1]
          /\ lastEvent' = Other
          /\ UNCHANGED <<rev, page, domVars, translationState, uiVars,
                         translatorVars, hoverVars, autoCheck, translateCalls,
                         wordFlows, barTimers, unitVars>>
     ELSE AnalysisDone(i, FALSE)

(***************************************************************************)
(* The content script as a whole                                           *)
(***************************************************************************)
RestoreOriginal == restoreOriginal

Keys == {"Escape", "Meta", "Control"}


Next ==
  \/ \E article \in ReadabilityResults : HandleMessage(article)
  \/ \E autoTranslate \in BOOLEAN, article \in ReadabilityResults :
       CheckAutoTranslate(autoTranslate, article)
  \/ \E i \in 1..MaxTranslateCalls, message \in ErrorMessages :
       TranslateFailed(i, message)
  \/ \E i \in 1..MaxTranslateCalls, kind \in ResultKinds : TranslateResponse(i, kind)
  \/ \E i \in 1..MaxTranslateCalls : TranslateSettled(i)
  \/ RestoreOriginal
  \/ BarTimerFires
  \/ \E pos \in Positions : MouseMove(pos)
  \/ \E key \in Keys : KeyDown(key)
  \/ KeyUp
  \/ Blur
  \/ \E el \in Elements(page), idx \in 1..MaxWordPlace : ClickWord(el, idx)
  \/ \E el \in Elements(page) : ClickElement(el)
  \/ ClickOverlayButton
  \/ ClickBarClose
  \/ \E i \in 1..MaxWordFlows, ok \in BOOLEAN : InitDone(i, ok)
  \/ \E i \in 1..MaxWordFlows, translated \in BOOLEAN :
       BrowserTranslateDone(i, translated)
  \/ ClickAnalyze
  \/ \E i \in 1..MaxAnalyses, ok \in BOOLEAN : AnalysisDone(i, ok)
  \/ \E i \in 1..MaxAnalyses : AnalysisConnectionFails(i)

Spec == Init /\ [][Next]_vars

(***************************************************************************)
(* The background script: the translate-blocks request.  A request is      *)
(* answered by handleTranslationRequest, which reads the settings and the  *)
(* key, splits the blocks into batches and runs one translateBatch per     *)
(* batch, all at once.  A translateBatch call stands at "fetch" (awaiting  *)
(* the response of fetch, its timer armed), at "text" or "json" (awaiting  *)
(* the body of a response that is not ok / ok) or at "done".               *)
(***************************************************************************)
contentVars ==
  <<rev, page, domVars, translationState, uiVars, translatorVars, hoverVars,
    flowVars, lastEvent>>

BatchSize == 2

\* The batches of handleTranslationRequest: blocks.slice(i, i + 2) for i = 0, 2, ...
RECURSIVE createBatches(_)
createBatches(blocks) ==
  IF blocks = <<>> THEN <<>>
  ELSE <<SubSeq(blocks, 1, Min(BatchSize, Len(blocks)))>> \o
       createBatches(SubSeq(blocks, BatchSize + 1, Len(blocks)))

\* results.flat()
flat(results) == Concat(results)

\* translateBatch up to its await of fetch: the timer is set, the request sent
translateBatchStart(blocks) ==
  [blocks |-> blocks, stage |-> "fetch", timer |-> TRUE, failed |-> FALSE,
   result |-> <<>>, upstream |-> "pending", status |-> "none"]

\* What the upstream service makes of a text
upstreamTranslation(text) == <<"Z", "u", " ">> \o text

Digits == {"1", "2"}

RECURSIVE dropDigits(_)
dropDigits(s) == IF s # <<>> /\ s[1] \in Digits THEN dropDigits(Tail(s)) ELSE s

\* translated.replace(/^#\d+:\s*/, '')
stripNumberPrefix(s) ==
  IF Len(s) >= 2 /\ s[1] = "#" /\ s[2] \in Digits
  THEN LET rest == dropDigits(Tail(s)) IN
       IF rest # <<>> /\ rest[1] = ":" THEN trimStart(Tail(rest)) ELSE s
  ELSE s

\* The bodies an ok response may carry for a batch: content with one block
\* per text ("blocks"), the same with the #N: prefixes of the prompt kept
\* ("numbered"), content with the last block missing ("short"), no content
\* ("empty"), content that is not JSON ("invalid").  None is no content;
\* blocks = None is content JSON.parse rejects.
ReplyKinds == {"blocks", "numbered", "short", "empty", "invalid"}

numberPrefix(i) == <<"#", IF i = 1 THEN "1" ELSE "2", ":", " ">>

replyContent(blocks, kind) ==
  LET n == Len(blocks) IN
  CASE kind = "blocks" ->
         Some([blocks |-> Some([i \in 1..n |->
                 Block(Some(blocks[i]), Some(upstreamTranslation(blocks[i])))])])
    [] kind = "numbered" ->
         Some([blocks |-> Some([i \in 1..n |->
                 Block(Some(blocks[i]),
                       Some(numberPrefix(i) \o upstreamTranslation(blocks[i])))])])
    [] kind = "short" ->
         Some([blocks |-> Some([i \in 1..(n - 1) |->
                 Block(Some(blocks[i]), Some(upstreamTranslation(blocks[i])))])])
    [] kind = "empty" -> None
    [] kind = "invalid" -> Some([blocks |-> None])

\* The catch block of translateBatch without the fallback blocks
catchBatch_NoFallback(blocks) == [blocks |-> <<>>, failed |-> TRUE]

\* The catch block of translateBatch: the texts as their own translations
catchBatch(blocks) ==
  [blocks |-> [i \in 1..Len(blocks) |-> Block(Some(blocks[i]), Some(blocks[i]))],
   failed |-> TRUE]

\* translateBatch from the parsed body on: content, JSON.parse, cleanedBlocks
parseBatch(blocks, content) ==
  IF content = None \/ content[1].blocks = None THEN catchBatch(blocks)
  ELSE LET parsed == content[1].blocks[1] IN
       [blocks |-> [i \in 1..Len(parsed) |->
                      Block(parsed[i].original,
                            Some(stripNumberPrefix(orEmpty(parsed[i].translated))))],
        failed |-> FALSE]

\* translateBatch number b returns outcome; the callback of batches.map
\* counts it if it failed.  upstream records whether the upstream call threw.
settleBatch(b, outcome, upstream) ==
  /\ wBatches' = [wBatches EXCEPT ![b] =
                    [@ EXCEPT !.stage = "done", !.timer = FALSE,
                              !.failed = outcome.failed,
                              !.result = outcome.blocks,
                              !.upstream = upstream]]
  /\ wFailedCount' = IF outcome.failed THEN wFailedCount + 1 ELSE wFailedCount

\* handleTranslationRequest after getSettings and getApiKey: without a key
\* it throws, and the listener answers ok: false; else every batch starts.
WorkerDispatch ==
  /\ wPc = "received"
  /\ IF wKey = ""
     THEN /\ wResponse' = Some([ok |-> FALSE, error |-> MissingKeyMessage])
          /\ wPc' = "done"
          /\ UNCHANGED wBatches
     ELSE /\ wBatches' = LET batches == createBatches(wBlocks) IN
                         [i \in 1..Len(batches) |-> translateBatchStart(batches[i])]
          /\ wPc' = "batches"
          /\ UNCHANGED wResponse
  /\ UNCHANGED <<contentVars, matchVars, renderVars, textVars, retryVars, wKey, wBlocks, wFailedCount>>

\* fetch resolves with a response, ok (status 200) or not (status 401, the
\* key was rejected): clearTimeout, then the body is awaited
FetchResponds(b, ok) ==
  /\ b \in 1..Len(wBatches)
  /\ wBatches[b].stage = "fetch"
  /\ wBatches' = [wBatches EXCEPT ![b] =
                    [@ EXCEPT !.stage = IF ok THEN "json" ELSE "text",
                              !.timer = FALSE,
                              !.status = IF ok THEN "200" ELSE "401"]]
  /\ UNCHANGED <<contentVars, matchVars, renderVars, textVars, retryVars, wKey, wBlocks, wPc,
                 wFailedCount, wResponse>>

\* fetch rejects (the network failed)
FetchRejects(b) ==
  /\ b \in 1..Len(wBatches)
  /\ wBatches[b].stage = "fetch"
  /\ settleBatch(b, catchBatch(wBatches[b].blocks), "threw")
  /\ UNCHANGED <<contentVars, matchVars, renderVars, textVars, retryVars, wKey, wBlocks, wPc, wResponse>>

\* The timer of a batch fires: controller.abort() rejects the pending fetch
TimeoutFires(b) ==
  /\ b \in 1..Len(wBatches)
  /\ wBatches[b].timer
  /\ settleBatch(b, catchBatch(wBatches[b].blocks), "threw")
  /\ UNCHANGED <<contentVars, matchVars, renderVars, textVars, retryVars, wKey, wBlocks, wPc, wResponse>>

\* response.text() of a response that is not ok resolves: 'API Error' is thrown
TextArrives(b) ==
  /\ b \in 1..Len(wBatches)
  /\ wBatches[b].stage = "text"
  /\ settleBatch(b, catchBatch(wBatches[b].blocks), "threw")
  /\ UNCHANGED <<contentVars, matchVars, renderVars, textVars, retryVars, wKey, wBlocks, wPc, wResponse>>

\* response.json() resolves
JsonArrives(b, kind) ==
  /\ b \in 1..Len(wBatches)
  /\ wBatches[b].stage = "json"
  /\ LET outcome == parseBatch(wBatches[b].blocks,
                               replyContent(wBatches[b].blocks, kind))
     IN settleBatch(b, outcome, IF outcome.failed THEN "threw" ELSE "answered")
  /\ UNCHANGED <<contentVars, matchVars, renderVars, textVars, retryVars, wKey, wBlocks, wPc, wResponse>>

\* Reading the body rejects (the connection broke)
BodyFails(b) ==
  /\ b \in 1..Len(wBatches)
  /\ wBatches[b].stage \in {"text", "json"}
  /\ settleBatch(b, catchBatch(wBatches[b].blocks), "threw")
  /\ UNCHANGED <<contentVars, matchVars, renderVars, textVars, retryVars, wKey, wBlocks, wPc, wResponse>>

\* Promise.all resolves: handleTranslationRequest returns, the listener answers
WorkerFinish ==
  /\ wPc = "batches"
  /\ \A b \in 1..Len(wBatches) : wBatches[b].stage = "done"
  /\ wResponse' =
       Some([ok |-> TRUE,
             result |-> [blocks |-> flat([b \in 1..Len(wBatches) |-> wBatches[b].result]),
                         failedBatches |-> wFailedCount,
                         totalBatches |-> Len(wBatches)]])
  /\ wPc' = "done"
  /\ UNCHANGED <<contentVars, matchVars, renderVars, textVars, retryVars, wKey, wBlocks, wBatches,
                 wFailedCount>>

\* chrome.runtime.sendMessage of translatePage call i reaches the listener of
\* the background script, which starts handleTranslationRequest with the
\* texts; key is what chrome.storage.local holds.  One request is followed
\* at a time.
SendRequest(i, key) ==
  /\ i \in 1..Len(translateCalls)
  /\ translateCalls[i].stage = "response"
  /\ wPc = "idle"
  /\ translateCalls' = [translateCalls EXCEPT ![i].stage = "upstream"]
  /\ wKey' = key
  /\ wBlocks' = translateCalls[i].texts
  /\ wPc' = "received"
  /\ UNCHANGED <<rev, page, domVars, translationState, uiVars, translatorVars,
                 hoverVars, autoCheck, wordFlows, analyses, barTimers,
                 lastEvent, matchVars, renderVars, textVars, retryVars, wBatches, wFailedCount,
                 wResponse>>

\* The argument of sendResponse reaches translatePage call i: it throws
\* response.error if the response is not ok, else applies response.result.
ReceiveResponse(i) ==
  /\ i \in 1..Len(translateCalls)
  /\ translateCalls[i].stage = "upstream"
  /\ wPc = "done"
  /\ IF wResponse[1].ok
     THEN applyResult(i, wResponse[1].result)
     ELSE catchTranslateError(i, wResponse[1].error)
  /\ wKey' = "" /\ wBlocks' = <<>> /\ wPc' = "idle"
  /\ wBatches' = <<>> /\ wFailedCount' = 0 /\ wResponse' = None

\* The requests the background script is given on its own
WorkerTexts == {<<"a">>, <<"b">>}

RECURSIVE WorkerBlockLists(_)
WorkerBlockLists(n) ==
  IF n = 0 THEN {<<>>}
  ELSE WorkerBlockLists(n - 1) \cup
       {Append(blocks, text) : blocks \in WorkerBlockLists(n - 1), text \in WorkerTexts}

WorkerKeys == {"", "sk-1"}

InitWorker ==
  /\ Load({PageArticle})
  /\ rev = "selector"
  /\ MatchIdle
  /\ RenderIdle
  /\ TextIdle
  /\ RetryIdle
  /\ wKey \in WorkerKeys
  /\ wBlocks \in WorkerBlockLists(MaxWorkerBlocks)
  /\ wPc = "received"
  /\ wBatches = <<>>
  /\ wFailedCount = 0
  /\ wResponse = None

Batches == 1..Len(wBatches)

NextWorker ==
  \/ WorkerDispatch
  \/ \E b \in Batches, ok \in BOOLEAN : FetchResponds(b, ok)
  \/ \E b \in Batches : FetchRejects(b)
  \/ \E b \in Batches : TimeoutFires(b)
  \/ \E b \in Batches : TextArrives(b)
  \/ \E b \in Batches, kind \in ReplyKinds : JsonArrives(b, kind)
  \/ \E b \in Batches : BodyFails(b)
  \/ WorkerFinish

SpecWorker == InitWorker /\ [][NextWorker]_vars

\* The scheduling the background script can count on: its own continuations
\* run, and a timer that stays armed fires.  Nothing makes the upstream
\* service answer.
MaxBatches == (MaxWorkerBlocks + 1) \div BatchSize

SpecWorkerLive ==
  /\ SpecWorker
  /\ WF_vars(WorkerDispatch)
  /\ WF_vars(WorkerFinish)
  /\ \A b \in 1..MaxBatches : WF_vars(TimeoutFires(b))

(***************************************************************************)
(* The matcher on its own: findOriginalElementsByText applied to a         *)
(* document and a list of text blocks.                                     *)
(***************************************************************************)
MatchPages ==
  {PageArticle, PageList, PageWrapped, PageMixed, PageAlike, PageRole,
   PageFigure}

MatchTexts == {TextA, TextASpaced, TextAOmega, TextAAb, TextAFar, TextZ}

RECURSIVE BlockLists(_)
BlockLists(n) ==
  IF n = 0 THEN {<<>>}
  ELSE BlockLists(n - 1) \cup
       {Append(blocks, text) : blocks \in BlockLists(n - 1), text \in MatchTexts}

InitMatch ==
  /\ Load(MatchPages)
  /\ rev = "matcher"
  /\ mBlocks \in BlockLists(MaxBlocks)
  /\ mFound = None
  /\ RenderIdle
  /\ TextIdle
  /\ RetryIdle
  /\ WorkerIdle

FindElements ==
  /\ mFound = None
  /\ mFound' = Some(findOriginalElementsByText(Live, mBlocks))
  /\ UNCHANGED <<rev, page, domVars, translationState, uiVars, translatorVars,
                 hoverVars, flowVars, lastEvent, mBlocks, renderVars, textVars, retryVars,
                 workerVars>>

NextMatch == FindElements

SpecMatch == InitMatch /\ [][NextMatch]_vars

(***************************************************************************)
(* sendMessageWithRetry on its own: one call, whose sends resolve with a   *)
(* response or reject with an error in every order                         *)
(***************************************************************************)
\* An error message as the phrases it is made of; None for an error without
\* a message
ConnectionError ==
  Some(<<"Could not establish connection", ". ", "Receiving end does not exist", ".">>)
ReceivingEndError == Some(<<"Receiving end does not exist", ".">>)
PortClosedError ==
  Some(<<"The message port closed before a response was received", ".">>)
NoConnectionError == Some(<<"Could not establish connection", ".">>)
InvalidatedError == Some(<<"Extension context invalidated", ".">>)
SendErrors ==
  {ConnectionError, ReceivingEndError, NoConnectionError, PortClosedError,
   InvalidatedError, None}

\* What sendMessage resolves with: an answer of the background script, or
\* undefined
SendResponses == {Some([ok |-> TRUE]), Some([ok |-> FALSE]), None}

\* err.message?.includes(phrase)
includes(message, phrase) ==
  message # None /\ \E i \in 1..Len(message[1]) : message[1][i] = phrase

\* A test that takes every error for a connection error
isConnectionError_Always(message) == TRUE

\* isConnectionError of the catch block
isConnectionError(message) ==
  \/ includes(message, "Could not establish connection")
  \/ includes(message, "Receiving end does not exist")

InitRetry ==
  /\ Load({PageArticle})
  /\ rev = "matcher"
  /\ MatchIdle /\ RenderIdle /\ TextIdle /\ WorkerIdle
  /\ RetryIdle

\* sendMessageWithRetry(message) is called: attempt = 0 and the first
\* chrome.runtime.sendMessage
SendFirst ==
  /\ sPc = "idle"
  /\ sAttempt' = 0
  /\ sPc' = "sending"
  /\ UNCHANGED <<contentVars, matchVars, renderVars, textVars, workerVars,
                 sLog, sOutcome>>

\* The awaited sendMessage resolves: return response
SendResolves(response) ==
  /\ sPc = "sending"
  /\ sLog' = Append(sLog, [ok |-> TRUE, error |-> None])
  /\ sOutcome' = Some([returned |-> TRUE, response |-> response,
                       error |-> None])
  /\ sPc' = "done"
  /\ UNCHANGED <<contentVars, matchVars, renderVars, textVars, workerVars,
                 sAttempt>>

\* The awaited sendMessage rejects: the catch block, which waits for the
\* delay before the next attempt or throws the error on
SendRejects(message) ==
  /\ sPc = "sending"
  /\ sLog' = Append(sLog, [ok |-> FALSE, error |-> message])
  /\ IF isConnectionError(message) /\ sAttempt < Retries
     THEN /\ sPc' = "waiting"
          /\ UNCHANGED sOutcome
     ELSE /\ sPc' = "done"
          /\ sOutcome' = Some([returned |-> FALSE, response |-> None,
                               error |-> message])
  /\ UNCHANGED <<contentVars, matchVars, renderVars, textVars, workerVars,
                 sAttempt>>

\* The delay of 100 * (attempt + 1) ms is over: continue, attempt++, and
\* the next sendMessage (the loop test attempt <= retries holds here)
DelayFires ==
  /\ sPc = "waiting"
  /\ sAttempt' = sAttempt + 1
  /\ IF sAttempt + 1 <= Retries
     THEN /\ sPc' = "sending"
          /\ UNCHANGED sOutcome
     ELSE /\ sPc' = "done"
          /\ sOutcome' = Some([returned |-> TRUE, response |-> None,
                               error |-> None])
  /\ UNCHANGED <<contentVars, matchVars, renderVars, textVars, workerVars,
                 sLog>>

SendSettles ==
  \/ \E response \in SendResponses : SendResolves(response)
  \/ \E message \in SendErrors : SendRejects(message)

NextRetry ==
  \/ SendFirst
  \/ \E response \in SendResponses : SendResolves(response)
  \/ \E message \in SendErrors : SendRejects(message)
  \/ DelayFires

SpecRetry == InitRetry /\ [][NextRetry]_vars

\* Every sendMessage settles and every delay ends.
SpecRetryLive ==
  /\ SpecRetry
  /\ WF_vars(SendFirst)
  /\ WF_vars(SendSettles)
  /\ WF_vars(DelayFires)

(***************************************************************************)
(* The text functions on their own: normalizeText applied to a text,       *)
(* textSimilarity applied to two normalized texts.                         *)
(***************************************************************************)
\* Letters of both cases and the whitespace characters
TextAlphabet == {"a", "A", "Z", " ", "\t", "\n"}

RECURSIVE Strings(_)
Strings(n) ==
  IF n = 0 THEN {<<>>}
  ELSE Strings(n - 1) \cup
       {Append(text, c) : text \in Strings(n - 1), c \in TextAlphabet}

InitNormalize ==
  /\ Load({PageArticle})
  /\ rev = "matcher"
  /\ MatchIdle /\ RenderIdle /\ WorkerIdle /\ RetryIdle
  /\ tA \in Strings(MaxStringLen)
  /\ tB = <<>>
  /\ tOut = None

\* normalizeText(tA)
Normalize ==
  /\ tOut = None
  /\ tOut' = Some(normalizeText(tA))
  /\ UNCHANGED <<contentVars, matchVars, renderVars, workerVars, retryVars, tA, tB>>

NextNormalize == Normalize

SpecNormalize == InitNormalize /\ [][NextNormalize]_vars

\* Words of the normalized texts: one too short to count, three that count
TextWords == {<<"a", "b">>, <<"a", "b", "c">>, <<"a", "b", "d">>,
              <<"z", "a", "b", "c">>}

RECURSIVE WordLists(_)
WordLists(n) ==
  IF n = 0 THEN {<<>>}
  ELSE WordLists(n - 1) \cup
       {Append(ws, w) : ws \in WordLists(n - 1), w \in TextWords}

\* Normalized texts: words separated by single spaces
NormalizedTexts == {Join(ws, <<" ">>) : ws \in WordLists(MaxWords)}

InitSimilarity ==
  /\ Load({PageArticle})
  /\ rev = "matcher"
  /\ MatchIdle /\ RenderIdle /\ WorkerIdle /\ RetryIdle
  /\ tA \in NormalizedTexts
  /\ tB \in NormalizedTexts
  /\ tOut = None

\* textSimilarity(tA, tB)
Compare ==
  /\ tOut = None
  /\ tOut' = Some(textSimilarity(tA, tB))
  /\ UNCHANGED <<contentVars, matchVars, renderVars, workerVars, retryVars, tA, tB>>

NextSimilarity == Compare

SpecSimilarity == InitSimilarity /\ [][NextSimilarity]_vars

(***************************************************************************)
(* renderTranslatedBlock on its own: applied to an element and a text.     *)
(***************************************************************************)
\* The characters of the texts: a lower-case and an upper-case letter, two
\* whitespace characters, a full stop, a hyphen, an apostrophe and a
\* combining mark.
RenderAlphabet == {"a", "Z", " ", "\n", ".", "-", "'", "~"}

RECURSIVE RenderTexts(_)
RenderTexts(n) ==
  IF n = 0 THEN {<<>>}
  ELSE RenderTexts(n - 1) \cup
       {Append(text, c) : text \in RenderTexts(n - 1), c \in RenderAlphabet}

InitRender ==
  /\ Load({PageArticle})
  /\ rev = "selector"
  /\ MatchIdle
  /\ WorkerIdle
  /\ TextIdle
  /\ RetryIdle
  /\ rText \in RenderTexts(MaxTextLen)
  /\ rNodes = None

\* renderTranslatedBlock(el, rText) for an element of the page; rNodes is
\* el.childNodes afterwards
RenderBlock(el) ==
  /\ rNodes = None
  /\ rNodes' = Some(renderTranslatedBlock(Dom, el, Some(rText)).kids[el])
  /\ UNCHANGED <<rev, page, domVars, translationState, uiVars, translatorVars,
                 hoverVars, flowVars, lastEvent, matchVars, rText,
                 textVars, retryVars, workerVars>>

NextRender == \E el \in Elements(page) : RenderBlock(el)

SpecRender == InitRender /\ [][NextRender]_vars

(***************************************************************************)
(* Parts of the content script.  Each restricts Next to the handlers that  *)
(* read or write the state a group of properties is about, and starts a    *)
(* session the way the page does at load with auto-translate switched on.  *)
(***************************************************************************)
\* What Readability returns for PageArticle
GoodArticle == Some([content |-> <<TextASpaced, TextZ>>, length |-> 120])

\* What Readability returns for a page whose article repeats a paragraph
TwinArticle == Some([content |-> <<TextA, TextA>>, length |-> 120])

\* The translation session: both triggers, the responses and restore.
NextSession ==
  \/ \E article \in {GoodArticle, TwinArticle} : HandleMessage(article)
  \/ \E autoTranslate \in BOOLEAN, article \in {GoodArticle, TwinArticle} :
       CheckAutoTranslate(autoTranslate, article)
  \/ \E i \in 1..MaxTranslateCalls, kind \in {"translated", "fewer"} :
       TranslateResponse(i, kind)
  \/ \E i \in 1..MaxTranslateCalls : TranslateSettled(i)
  \/ RestoreOriginal

SpecSession == Init /\ [][NextSession]_vars

\* What Readability returns for PageMixed: the container's text, the text of
\* the inline element inside it, and the paragraph
MixedArticle == Some([content |-> <<TextAAb, TextA, TextZ>>, length |-> 120])

\* Restore of sessions that recorded an element together with one of its
\* descendants, which rewriting the element has taken out of the document.
InitNested ==
  /\ Load({PageMixed, PageList, PageWrapped})
  /\ MatchIdle
  /\ RenderIdle
  /\ TextIdle
  /\ RetryIdle
  /\ WorkerIdle

NextNested ==
  \/ HandleMessage(MixedArticle)
  \/ \E autoTranslate \in BOOLEAN : CheckAutoTranslate(autoTranslate, MixedArticle)
  \/ \E i \in 1..MaxTranslateCalls, kind \in {"translated", "fallback", "fewer"} :
       TranslateResponse(i, kind)
  \/ \E i \in 1..MaxTranslateCalls : TranslateSettled(i)
  \/ RestoreOriginal

SpecNested == InitNested /\ [][NextNested]_vars

\* The failures before the request: every result of the extractor, both
\* triggers, the answers to the request, the error overlay and restore.
NextExtract ==
  \/ \E article \in ReadabilityResults : HandleMessage(article)
  \/ \E autoTranslate \in BOOLEAN, article \in ReadabilityResults :
       CheckAutoTranslate(autoTranslate, article)
  \/ \E i \in 1..MaxTranslateCalls, message \in ErrorMessages :
       TranslateFailed(i, message)
  \/ \E i \in 1..MaxTranslateCalls : TranslateResponse(i, "translated")
  \/ \E i \in 1..MaxTranslateCalls : TranslateSettled(i)
  \/ ClickOverlayButton
  \/ RestoreOriginal

SpecExtract == Init /\ [][NextExtract]_vars

\* The request between the two scripts: a page translation whose request the
\* background script answers, with and without a key stored, up to the
\* session it creates.
NextRequest ==
  \/ HandleMessage(GoodArticle)
  \/ \E autoTranslate \in BOOLEAN : CheckAutoTranslate(autoTranslate, GoodArticle)
  \/ \E i \in 1..MaxTranslateCalls, key \in WorkerKeys : SendRequest(i, key)
  \/ NextWorker
  \/ \E i \in 1..MaxTranslateCalls : ReceiveResponse(i)
  \/ \E i \in 1..MaxTranslateCalls : TranslateSettled(i)
  \/ ClickOverlayButton

SpecRequest == Init /\ [][NextRequest]_vars

\* Word lookup: a session started at load, clicks, the popup and its flows.
NextWords ==
  \/ CheckAutoTranslate(TRUE, GoodArticle)
  \/ \E i \in 1..MaxTranslateCalls : TranslateResponse(i, "translated")
  \/ \E i \in 1..MaxTranslateCalls : TranslateSettled(i)
  \/ RestoreOriginal
  \/ KeyDown("Escape")
  \/ \E el \in Elements(page), idx \in 1..MaxWordPlace : ClickWord(el, idx)
  \/ \E el \in Elements(page) : ClickElement(el)
  \/ \E i \in 1..MaxWordFlows, ok \in BOOLEAN : InitDone(i, ok)
  \/ \E i \in 1..MaxWordFlows, translated \in BOOLEAN :
       BrowserTranslateDone(i, translated)
  \/ ClickAnalyze
  \/ \E i \in 1..MaxAnalyses, ok \in BOOLEAN : AnalysisDone(i, ok)

SpecWords == Init /\ [][NextWords]_vars

\* The popup: word lookup together with the modifier keys, so that both
\* kinds of popup are opened.
NextPopups ==
  \/ NextWords
  \/ \E key \in {"Meta", "Control"} : KeyDown(key)
  \/ KeyUp

SpecPopups == Init /\ [][NextPopups]_vars

\* Deeper analysis: word lookup together with the connection failures of
\* the analysis request.
NextAnalysis ==
  \/ NextWords
  \/ \E i \in 1..MaxAnalyses : AnalysisConnectionFails(i)

SpecAnalysis == Init /\ [][NextAnalysis]_vars

\* Lazy initialization: word clicks and their lookups over sessions started
\* at load and from the popup, so that a session can follow a restore.
NextLazyInit ==
  \/ HandleMessage(GoodArticle)
  \/ CheckAutoTranslate(TRUE, GoodArticle)
  \/ \E i \in 1..MaxTranslateCalls : TranslateResponse(i, "translated")
  \/ \E i \in 1..MaxTranslateCalls : TranslateSettled(i)
  \/ RestoreOriginal
  \/ \E el \in Elements(page), idx \in 1..MaxWordPlace : ClickWord(el, idx)
  \/ \E i \in 1..MaxWordFlows, ok \in BOOLEAN : InitDone(i, ok)
  \/ \E i \in 1..MaxWordFlows, translated \in BOOLEAN :
       BrowserTranslateDone(i, translated)

SpecLazyInit == Init /\ [][NextLazyInit]_vars

\* The rewriter: a page translation answered with every kind of result.
NextApply ==
  \/ HandleMessage(GoodArticle)
  \/ \E autoTranslate \in BOOLEAN : CheckAutoTranslate(autoTranslate, GoodArticle)
  \/ \E i \in 1..MaxTranslateCalls, kind \in ResultKinds :
       TranslateResponse(i, kind)
  \/ \E i \in 1..MaxTranslateCalls : TranslateSettled(i)
  \/ ClickOverlayButton

SpecApply == Init /\ [][NextApply]_vars

\* Sentence mode: a session started at load, modifier keys, pointer, clicks.
NextSentence ==
  \/ CheckAutoTranslate(TRUE, GoodArticle)
  \/ \E i \in 1..MaxTranslateCalls : TranslateResponse(i, "translated")
  \/ \E i \in 1..MaxTranslateCalls : TranslateSettled(i)
  \/ RestoreOriginal
  \/ \E pos \in Positions : MouseMove(pos)
  \/ \E key \in Keys : KeyDown(key)
  \/ KeyUp
  \/ Blur
  \/ \E el \in Elements(page), idx \in 1..MaxWordPlace : ClickWord(el, idx)
  \/ \E el \in Elements(page) : ClickElement(el)

SpecSentence == Init /\ [][NextSentence]_vars

\* Sentence clicks over sessions started from the popup, with full and
\* shorter replies.
NextOriginals ==
  \/ HandleMessage(GoodArticle)
  \/ \E i \in 1..MaxTranslateCalls, kind \in {"translated", "fewer"} :
       TranslateResponse(i, kind)
  \/ \E i \in 1..MaxTranslateCalls : TranslateSettled(i)
  \/ \E key \in {"Meta", "Control"} : KeyDown(key)
  \/ KeyUp
  \/ \E el \in Elements(page), idx \in 1..MaxWordPlace : ClickWord(el, idx)
  \/ \E el \in Elements(page) : ClickElement(el)

SpecOriginals == Init /\ [][NextOriginals]_vars

(***************************************************************************)
(* Properties of the translation session                                   *)
(***************************************************************************)
SessionElements == IF translationState = None THEN <<>> ELSE translationState[1].elements

SessionOriginals == IF translationState = None THEN <<>> ELSE translationState[1].originals

\* A step in which applyTranslations ran to its end and set the session
Applied == translationState' # None /\ translationState' # translationState

\* A step in which restoreOriginal ran on an active session
Restored == translationState # None /\ translationState' = None

RestoredBar == FloatingBar("Original restored", "info", None)

\* C1: applyTranslations(E, B) followed by restoreOriginal leaves every
\* element of E with the text content it had immediately before the
\* applyTranslations call: the call records, for every element it rewrites,
\* the text the element had when the call began, and restore writes every
\* recorded text back into its element.
C1_RestoreAfterApply ==
  [][/\ Applied =>
          \A i \in 1..Len(translationState'[1].elements) :
            translationState'[1].originals[i] =
              textContent(kids, translationState'[1].elements[i])
     /\ Restored =>
          \A i \in 1..Len(SessionElements) :
            textContent(kids', SessionElements[i]) = SessionOriginals[i]]_vars

\* C1 witness: a translated page has been restored and reads as loaded.
C1_Witness ==
  /\ lastEvent.type = "restore"
  /\ activeFloatingBar = RestoredBar
  /\ \A e \in Elements(page) : textContent(kids, e) = textContent(page.kids, e)
  /\ \A e \in Elements(page) : \A i \in 1..Len(kids[e]) : kids[e][i].k # "word"

AlreadyTranslatedBar ==
  FloatingBar("Page already translated", "info", translationState)

\* C2: translatePage invoked while translationState is set is rejected: the
\* bar says 'Page already translated', no element is modified, no request is
\* sent (no call is left awaiting a response), the overlay is not shown and
\* the session is unchanged.
C2_RejectedWhileActive ==
  [][\A article \in ReadabilityResults :
       (translationState # None /\ translatePage(article)) =>
         /\ activeFloatingBar' = AlreadyTranslatedBar
         /\ UNCHANGED <<domVars, translationState, translateCalls, activeOverlay>>]_vars

\* C2 witness: a session is active and the bar reports the rejection.
C2_Witness ==
  /\ translationState # None
  /\ activeFloatingBar = AlreadyTranslatedBar

\* C3: whatever the interleaving of triggers and responses, no element is
\* rewritten twice without a restore in between, so the originals a session
\* records are the texts of the page as loaded.
C3_OriginalsArePageTexts ==
  \A i \in 1..Len(SessionElements) :
    SessionOriginals[i] = textContent(page.kids, SessionElements[i])

\* C9: restoreOriginal called without a session changes no element, popup,
\* bar, overlay or state variable.
C9_RestoreWithoutSession ==
  [][(translationState = None /\ lastEvent'.type = "restore") =>
       UNCHANGED <<domVars, translationState, uiVars, translatorVars,
                   hoverVars, flowVars>>]_vars

\* C9 witness: restore was called on a page that has no session and shows no bar.
C9_Witness ==
  /\ lastEvent.type = "restore"
  /\ translationState = None
  /\ activeFloatingBar = None

(***************************************************************************)
(* Properties of word lookup and sentence mode                             *)
(***************************************************************************)
WordClicked(e) == e.type = "word-click"

Clicked(e) == e.type \in {"word-click", "click"}

\* The popup shows the original text of a paragraph
ShowsOriginal(tip) == tip # None /\ tip[1].kind = "original"

\* The popup shows a word: its lookup, its translation or its analysis
ShowsWord(tip) == tip # None /\ tip[1].kind # "original"

\* C4: a second click on the word unit whose popup the click before opened,
\* with the modifier not held at either click, leaves no popup open and
\* starts no word-lookup flow.
C4_SecondClickCloses ==
  [][(/\ WordClicked(lastEvent) /\ lastEvent.word = 1
      /\ WordClicked(lastEvent')
      /\ lastEvent'.el = lastEvent.el /\ lastEvent'.idx = lastEvent.idx
      /\ ~isModifierHeld)
       => (activeTooltip' = None /\ lastEvent'.word = 0)]_vars

\* C5: a click handled while the modifier is held starts no word lookup (no
\* word popup opens, no lookup flow is added, the translator is not set up),
\* a click handled while it is not held opens no original-text popup, and no
\* click starts both.
C5_ModesExclusive ==
  [][Clicked(lastEvent') =>
       /\ isModifierHeld =>
            /\ lastEvent'.word = 0
            /\ ShowsWord(activeTooltip') => activeTooltip' = activeTooltip
            /\ UNCHANGED <<wordFlows, browserTranslatorInitialized>>
       /\ ~isModifierHeld =>
            /\ lastEvent'.original = 0
            /\ ShowsOriginal(activeTooltip') => activeTooltip' = activeTooltip
       /\ lastEvent'.word + lastEvent'.original <= 1]_vars

\* C5 witness: a click with the modifier held has opened the original-text
\* popup of a translated paragraph.
C5_Witness ==
  /\ Clicked(lastEvent) /\ lastEvent.original = 1
  /\ isModifierHeld
  /\ ShowsOriginal(activeTooltip)
  /\ "vakya-translated" \in classes[activeTooltip[1].anchor.el]

\* C6: the content of the open popup belongs to the target the popup was
\* opened for: a word popup shows the word of the unit it is anchored at, and
\* the popup of a paragraph shows that paragraph's original text.
C6_PopupShowsItsTarget ==
  activeTooltip # None =>
    IF activeTooltip[1].anchor.idx = 0
    THEN ShowsOriginal(activeTooltip)
    ELSE ShowsWord(activeTooltip)
         /\ activeTooltip[1].word = activeTooltip[1].anchor.word

\* C7: after restoreOriginal on an active session no recorded element carries
\* the 'translated' tag, the stored original / context, the handlers added at
\* rewrite time or a word unit; no popup is open and the session is null.
C7_RestoreLeavesNothing ==
  [][Restored =>
       /\ \A i \in 1..Len(SessionElements) :
            LET el == SessionElements[i] IN
            /\ "vakya-translated" \notin classes'[el]
            /\ dataset'[el] = NoData
            /\ listeners'[el] \cap {"click", "mouseenter", "mouseleave"} = {}
            /\ \A j \in 1..Len(kids'[el]) : kids'[el][j].k # "word"
       /\ activeTooltip' = None
       /\ currentClickedWord' = None
       /\ translationState' = None]_vars

\* C7 witness: a session in which a word lookup was under way has just been
\* restored.
C7_Witness ==
  /\ lastEvent.type = "restore"
  /\ activeFloatingBar = RestoredBar
  /\ wordFlows # <<>>
  /\ wordFlows[1].session = "restored"

\* C8: immediately after restoreOriginal on an active session no element
\* carries the sentence-hover highlight and hoveredSentence is null.
C8_RestoreClearsHover ==
  [][Restored =>
       /\ hoveredSentence' = None
       /\ \A e \in Elements(page) : "vakya-sentence-hover" \notin classes'[e]]_vars

(***************************************************************************)
(* Properties of the matcher                                               *)
(***************************************************************************)
FoundElements == IF mFound = None THEN <<>> ELSE mFound[1]

\* C10: findOriginalElementsByText never returns the same live element for
\* two different blocks.
C10_NoElementTwice ==
  \A i, j \in 1..Len(FoundElements) :
    i # j => FoundElements[i] # FoundElements[j]

\* C10 witness: two blocks with the same normalized text were both matched.
C10_Witness ==
  /\ Len(mBlocks) = 2
  /\ normalizeText(mBlocks[1]) = normalizeText(mBlocks[2])
  /\ Len(FoundElements) = 2

\* C11: once an element is matched to a block, none of its ancestors below
\* document.body is matched to a later block.
C11_NoAncestorLater ==
  \A i, j \in 1..Len(FoundElements) :
    i < j => FoundElements[j] \notin ancestorsBelowBody(page.kids, FoundElements[i])

\* C11 witness: a later block has the very text of an ancestor of the
\* element the first block was matched to, and that ancestor is not returned.
C11_Witness ==
  /\ Len(mBlocks) = 2 /\ Len(FoundElements) >= 1
  /\ \E a \in ancestorsBelowBody(page.kids, FoundElements[1]) :
       /\ page.tag[a] \in CandidateTags
       /\ ~isContainerElement(page, a)
       /\ normalizeText(textContent(page.kids, a)) = normalizeText(mBlocks[2])
       /\ \A i \in 1..Len(FoundElements) : FoundElements[i] # a

(***************************************************************************)
(* Properties of the tokenization                                          *)
(***************************************************************************)
RenderedNodes == IF rNodes = None THEN <<>> ELSE rNodes[1]

KeyCharacters == Letters \cup Marks \cup Apostrophe \cup Dashes

\* C12: for a text with at least one letter, the texts of the children
\* renderTranslatedBlock appends (word units and text nodes), concatenated in
\* order, are the text.
C12_TokensRoundTrip ==
  (rNodes # None /\ hasLetter(rText)) =>
    Concat([i \in 1..Len(RenderedNodes) |-> RenderedNodes[i].s]) = rText

\* C12 witness: a text with a letter and a run of two whitespace characters
\* has been rendered into more than one child.
C12_Witness ==
  /\ rNodes # None /\ hasLetter(rText)
  /\ Len(RenderedNodes) >= 2
  /\ \E i \in 1..(Len(rText) - 1) :
       rText[i] \in Whitespace /\ rText[i + 1] \in Whitespace

\* C13: a child is a word unit exactly if its fragment has a letter; the
\* unit's lookup key is the fragment without the characters that are not a
\* letter, mark, apostrophe or hyphen; every other child is a text node that
\* is a whitespace run or a fragment without letters, and no fragment mixes
\* whitespace with other characters.
C13_WordUnits ==
  \A i \in 1..Len(RenderedNodes) :
    LET node == RenderedNodes[i]
        hasLetterIn == \E j \in 1..Len(node.s) : node.s[j] \in Letters
        spaces == {j \in 1..Len(node.s) : node.s[j] \in Whitespace}
    IN /\ node.k \in {"word", "text"}
       /\ node.s # <<>>
       /\ (node.k = "word") <=> hasLetterIn
       /\ spaces = {} \/ spaces = 1..Len(node.s)
       /\ node.k = "word" =>
            node.word = Concat([j \in 1..Len(node.s) |->
                                  IF node.s[j] \in KeyCharacters
                                  THEN <<node.s[j]>> ELSE <<>>])

\* C13 witness: "a." has become a word unit with key "a", next to a
\* whitespace text node.
C13_Witness ==
  /\ rNodes # None
  /\ \E i \in 1..Len(RenderedNodes) :
       /\ RenderedNodes[i].k = "word"
       /\ RenderedNodes[i].s = <<"a", ".">>
       /\ RenderedNodes[i].word = <<"a">>
  /\ \E i \in 1..Len(RenderedNodes) :
       RenderedNodes[i].k = "text" /\ RenderedNodes[i].s[1] \in Whitespace

(***************************************************************************)
(* Properties of the modifier key                                          *)
(***************************************************************************)
Released(e) == e.type \in {"keyup", "blur"}

\* C14: after a key-up of Meta or Control, or a window blur, from any state,
\* isModifierHeld is false, the sentence-mode marker is removed and no
\* element carries the hover highlight.
C14_ReleaseClearsMode ==
  [][Released(lastEvent') =>
       /\ ~isModifierHeld'
       /\ ~sentenceMode'
       /\ \A e \in Elements(page) : "vakya-sentence-hover" \notin classes'[e]]_vars

\* C14 witness: the window lost focus with the pointer over a translated
\* element, and nothing is highlighted.
C14_Witness ==
  /\ lastEvent.type = "blur"
  /\ lastMousePosition # 0
  /\ "vakya-translated" \in classes[lastMousePosition]
  /\ ~isModifierHeld /\ ~sentenceMode /\ hoveredSentence = None

(***************************************************************************)
(* Properties of the background script                                     *)
(***************************************************************************)
Answered == wResponse # None /\ wResponse[1].ok

ResultBlocks == IF Answered THEN wResponse[1].result.blocks ELSE <<>>

\* The blocks of batch b as the request lists them
BatchTexts(b) ==
  SubSeq(wBlocks, BatchSize * (b - 1) + 1, Min(BatchSize * b, Len(wBlocks)))

Threw == {b \in Batches : wBatches[b].upstream = "threw"}

\* What the result must hold for batch b: the texts untranslated if its
\* upstream call threw, else the blocks the call returned
Expected(b) ==
  IF b \in Threw
  THEN [i \in 1..Len(BatchTexts(b)) |->
          Block(Some(BatchTexts(b)[i]), Some(BatchTexts(b)[i]))]
  ELSE wBatches[b].result

\* C15: whichever batches' upstream calls throw, the request is answered ok
\* with totalBatches the number of groups of at most 2 blocks, failedBatches
\* the number of batches that threw, the blocks of every such batch returned
\* with translated equal to the text, and the blocks of the other batches
\* included.
C15_PartialFailure ==
  (wPc = "done" /\ wKey # "") =>
    /\ Answered
    /\ wResponse[1].result.totalBatches = (Len(wBlocks) + 1) \div 2
    /\ Len(wBatches) = wResponse[1].result.totalBatches
    /\ \A b \in Batches : wBatches[b].blocks = BatchTexts(b)
    /\ wResponse[1].result.failedBatches = Cardinality(Threw)
    /\ ResultBlocks = Concat([b \in Batches |-> Expected(b)])

\* C15 witness: of two batches one threw and one was translated.
C15_Witness ==
  /\ Answered
  /\ wResponse[1].result.totalBatches = 2
  /\ wResponse[1].result.failedBatches = 1
  /\ \E i \in 1..Len(ResultBlocks) :
       ResultBlocks[i].translated = Some(upstreamTranslation(wBlocks[i]))
  /\ \E i \in 1..Len(ResultBlocks) :
       ResultBlocks[i].translated = Some(wBlocks[i])

\* C16: in whatever order the batches complete, block i of the result is the
\* translation, or the untranslated fallback, of block i of the request.
C16_ResultInBlockOrder ==
  Answered =>
    \A i \in 1..Len(ResultBlocks) :
      /\ i <= Len(wBlocks)
      /\ ResultBlocks[i].translated \in
           {Some(upstreamTranslation(wBlocks[i])), Some(wBlocks[i])}

\* C17: every translate-blocks request eventually gets its response.
C17_RequestAnswered == <>(wResponse # None)

(***************************************************************************)
(* Properties of the failures of a page translation                        *)
(***************************************************************************)
\* Readability gives no article, or one whose length is below 100
NoArticle(article) == article = None \/ article[1].length < MinArticleLen

\* A step that shows an error, sends no request and leaves the page alone
ReportsOnly(title, settings) ==
  /\ activeOverlay' = Overlay("error", title, settings)
  /\ translateCalls' = translateCalls
  /\ translationState' = translationState
  /\ UNCHANGED domVars

\* C18: when Readability gives no article or an article shorter than 100,
\* translatePage (matcher revision, no session yet) shows the error
\* 'No content found', modifies no element, sends no request and creates
\* no session.
C18_NoContentFound ==
  [][\A article \in ReadabilityResults :
       (/\ rev = "matcher" /\ translationState = None
        /\ NoArticle(article)
        /\ translatePage(article))
       => /\ ReportsOnly("No content found", FALSE)
          /\ translationState' = None]_vars

\* C18 witness: the error is on screen and nothing else has happened.
C18_Witness ==
  /\ rev = "matcher"
  /\ activeOverlay = Overlay("error", "No content found", FALSE)
  /\ translationState = None /\ translateCalls = <<>>
  /\ kids = page.kids

\* The article has text blocks and none of them matches a live element
NothingMatches(article) ==
  /\ ~NoArticle(article)
  /\ LET textBlocks == extractTextBlocksFromReadability(article[1].content) IN
     /\ textBlocks # <<>>
     /\ findOriginalElementsByText(Live, textBlocks) = <<>>

\* C19: when the article has text blocks and none matches a live element,
\* translatePage (matcher revision, no session yet) shows the error
\* 'Could not match content', sends no request, modifies no element and
\* creates no session.
C19_CouldNotMatch ==
  [][\A article \in ReadabilityResults :
       (/\ rev = "matcher" /\ translationState = None
        /\ NothingMatches(article)
        /\ translatePage(article))
       => /\ ReportsOnly("Could not match content", FALSE)
          /\ translationState' = None]_vars

\* C19 witness: the error is on screen and nothing else has happened.
C19_Witness ==
  /\ rev = "matcher"
  /\ activeOverlay = Overlay("error", "Could not match content", FALSE)
  /\ translationState = None /\ translateCalls = <<>>
  /\ kids = page.kids

\* C20: with no key stored the background script answers the request with
\* ok: false and the message 'Missing OpenAI API key. ...' without starting
\* any batch, and translatePage, given that answer, shows the message in an
\* error overlay with the settings button, modifies no element and creates
\* no session.
C20_MissingKey ==
  [][/\ (wKey = "" /\ wPc = "received" /\ wPc' # wPc) =>
          /\ wResponse' = Some([ok |-> FALSE, error |-> MissingKeyMessage])
          /\ wBatches' = <<>> /\ wBatches = <<>>
     /\ (wKey = "" /\ wPc = "done" /\ wPc' # wPc) =>
          /\ wBatches = <<>>
          /\ activeOverlay' = Overlay("error", MissingKeyMessage, TRUE)
          /\ translationState' = translationState
          /\ Len(translateCalls') < Len(translateCalls)
          /\ UNCHANGED domVars]_vars

\* C20 witness: the overlay with the settings button on an untouched page.
C20_Witness ==
  /\ activeOverlay = Overlay("error", MissingKeyMessage, TRUE)
  /\ translationState = None
  /\ kids = page.kids
  /\ wPc = "idle"

\* Every batch of the request was rejected by the upstream service (401)
AllRejected ==
  /\ wBatches # <<>>
  /\ \A b \in Batches : wBatches[b].status = "401" /\ wBatches[b].stage = "done"

\* C21: when the upstream service answers 401 to every batch, the request is
\* answered with an error, and translatePage, given the answer, shows an
\* error overlay with the settings button, rewrites no element and creates
\* no session.
C21_RejectedKey ==
  [][(AllRejected /\ wPc = "done" /\ wPc' # wPc) =>
       /\ ~wResponse[1].ok
       /\ activeOverlay' # None
       /\ activeOverlay'[1].type = "error" /\ activeOverlay'[1].settings
       /\ translationState' = translationState
       /\ UNCHANGED domVars]_vars

(***************************************************************************)
(* Properties of the popup                                                 *)
(***************************************************************************)
\* C22: the document holds at most one popup element, and it holds one
\* exactly when activeTooltip refers to a popup.
C22_OnePopup ==
  /\ tooltipElements \in {0, 1}
  /\ (tooltipElements = 1) <=> (activeTooltip # None)

\* C22 witness: a popup opened by a click while another was open, with a
\* word lookup of the earlier popup still waiting.
C22_Witness ==
  /\ tooltipElements = 1
  /\ activeTooltip # None
  /\ \E i \in 1..Len(wordFlows) : wordFlows[i].span # activeTooltip[1].anchor

\* An analyze-word message is sent in the step: a call starts, or a pending
\* call sends once more
AnalysisSent ==
  \/ Len(analyses') > Len(analyses)
  \/ /\ Len(analyses') = Len(analyses)
     /\ \E i \in 1..Len(analyses) : analyses'[i].sent > analyses[i].sent

\* C23: an analyze-word message is sent only by a click on the popup's
\* control, never by the script on its own after a failure, and a failed
\* analysis leaves the control enabled with the retry label.
C23_NoAutomaticRetry ==
  [][/\ AnalysisSent => lastEvent'.type = "analyze-click"
     /\ (\E i \in 1..Len(analyses) :
           /\ analyses[i].btnLive
           /\ analyses'= RemoveAt(analyses, i)
           /\ activeTooltip' # None /\ activeTooltip'[1].btn # None
           /\ activeTooltip'[1].btn[1].label = "Error - try again")
        => ~activeTooltip'[1].btn[1].disabled]_vars

(***************************************************************************)
(* Properties of the rewriter                                              *)
(***************************************************************************)
\* The elements and blocks of the applyTranslations call made in the step,
\* if the step is the continuation of translatePage call i on an ok response
AppliedIn(i, kind) ==
  /\ i \in 1..Len(translateCalls)
  /\ TranslateResponse(i, kind)

\* C24: applyTranslations(elements, blocks) does not throw, whatever the
\* number and contents of the blocks; it rewrites the first
\* min(|elements|, |blocks|) elements, element j by block j, leaves the
\* other elements as they were, and the session holds those elements and as
\* many originals.
C24_PairsUpToMin ==
  [][\A i \in 1..MaxTranslateCalls, kind \in ResultKinds :
       AppliedIn(i, kind) =>
         LET elements == translateCalls[i].elements
             blocks == resultBlocks(translateCalls[i].texts, kind).blocks
             count == Min(Len(elements), Len(blocks))
             first == {elements[j] : j \in 1..count}
         IN /\ activeOverlay' = None
            /\ translationState' # None
            /\ translationState'[1].elements = SubSeq(elements, 1, count)
            /\ Len(translationState'[1].originals) = count
            /\ \A j \in 1..count :
                 /\ orElse(blocks[j].translated, blocks[j].original) # None
                 /\ kids'[elements[j]] =
                      renderedNodes(orElse(blocks[j].translated,
                                           blocks[j].original)[1])
            /\ \A e \in Elements(page) \ first :
                 /\ kids'[e] = kids[e] /\ classes'[e] = classes[e]
                 /\ dataset'[e] = dataset[e] /\ listeners'[e] = listeners[e]]_vars

(***************************************************************************)
(* Properties of the text functions                                        *)
(***************************************************************************)
\* C25: normalizeText applied to its own result gives that result, and the
\* result has no space at either end, no two whitespace characters in a
\* row (its only whitespace is the single space) and no upper-case letter.
C25_NormalizeIdempotent ==
  tOut # None =>
    LET n == tOut[1] IN
    /\ normalizeText(n) = n
    /\ n # <<>> => (n[1] \notin Whitespace /\ n[Len(n)] \notin Whitespace)
    /\ \A i \in 1..Len(n) :
         /\ n[i] \notin UpperCase
         /\ n[i] \in Whitespace =>
              (n[i] = " " /\ (i < Len(n) => n[i + 1] \notin Whitespace))

\* C25 witness: a text with an upper-case letter between whitespace of two
\* kinds has been normalized to something else.
C25_Witness ==
  /\ tOut # None
  /\ tOut[1] # tA
  /\ Len(tA) = MaxStringLen
  /\ tA[1] = "\n" /\ tA[2] \in UpperCase /\ tA[3] \in Whitespace
  /\ tOut[1] # <<>>

\* The tokens of a text that are longer than 2 characters
LongTokens(s) ==
  LET ws == splitWhitespace(s) IN
  {ws[i] : i \in {j \in 1..Len(ws) : Len(ws[j]) > 2}}

\* C26: textSimilarity of two normalized texts is the same in both orders,
\* lies between 0 and 1, is 0 if either text has no token longer than 2,
\* is 1 for a text with such a token and itself, and equals
\* |A n B| / (|A| + |B| - |A n B|) for the sets A, B of tokens longer than 2.
C26_Similarity ==
  tOut # None =>
    LET A == LongTokens(tA)
        B == LongTokens(tB)
        both == Cardinality(A \cap B)
        num == tOut[1][1]
        den == tOut[1][2]
    IN /\ tOut[1] = textSimilarity(tB, tA)
       /\ den > 0 /\ 0 <= num /\ num <= den
       /\ (A = {} \/ B = {}) => num = 0
       /\ (tA = tB /\ A # {}) => num = den
       /\ (A # {} /\ B # {}) =>
            num * (Cardinality(A) + Cardinality(B) - both) = both * den

\* C26 witness: two texts that share one of their long tokens, not all.
C26_Witness ==
  /\ tOut # None
  /\ tOut[1][1] > 0
  /\ tOut[1][1] < tOut[1][2]
  /\ tA # tB

(***************************************************************************)
(* Properties of the matcher's choice                                      *)
(***************************************************************************)
MatchCandidates == querySelectorAll(Live, CandidateTags)

\* Places in the candidate list of those that may be chosen
Eligible(used) ==
  {j \in 1..Len(MatchCandidates) :
     /\ MatchCandidates[j] \notin used
     /\ ~isContainerElement(Live, MatchCandidates[j])}

CandidateText(j) == normalizeText(textContent(kids, MatchCandidates[j]))

Score(j, target) == textSimilarity(CandidateText(j), target)

AboveThreshold(q) == q[1] * ThresholdDen > ThresholdNum * q[2]

Least(S) == CHOOSE j \in S : \A k \in S : j <= k

\* The rule: the first exact match, else the best fuzzy match above the
\* threshold (the earliest of the best), else none
Chosen(used, target) ==
  LET exact == {j \in Eligible(used) : CandidateText(j) = target}
      fuzzy == {j \in Eligible(used) : AboveThreshold(Score(j, target))}
      top == {j \in fuzzy :
                \A k \in fuzzy :
                  Score(k, target)[1] * Score(j, target)[2]
                    <= Score(j, target)[1] * Score(k, target)[2]}
  IN IF exact # {} THEN Some(MatchCandidates[Least(exact)])
     ELSE IF fuzzy # {} THEN Some(MatchCandidates[Least(top)])
     ELSE None

\* The elements the rule gives for the blocks from block i on
RECURSIVE ChosenFrom(_, _, _)
ChosenFrom(i, found, used) ==
  IF i > Len(mBlocks) THEN found
  ELSE LET el == Chosen(used, normalizeText(mBlocks[i])) IN
       IF el = None THEN ChosenFrom(i + 1, found, used)
       ELSE ChosenFrom(i + 1, Append(found, el[1]),
                       used \cup {el[1]} \cup ancestorsBelowBody(kids, el[1]))

\* C27: the matcher returns, block by block in input order, the first
\* eligible candidate whose normalized text equals the block's, else the
\* earliest of the eligible candidates with the highest similarity above
\* 0.85, else nothing for the block.
C27_SelectionRule ==
  mFound # None => mFound[1] = ChosenFrom(1, <<>>, {})

\* C27 witness: a block matched exactly although an earlier eligible
\* candidate is a fuzzy match for it.
C27_Witness ==
  /\ mFound # None
  /\ mBlocks # <<>>
  /\ LET target == normalizeText(mBlocks[1])
         exact == {j \in Eligible({}) : CandidateText(j) = target}
     IN /\ exact # {}
        /\ \E k \in Eligible({}) :
             k < Least(exact) /\ AboveThreshold(Score(k, target))
        /\ mFound[1][1] = MatchCandidates[Least(exact)]

\* The tags of a paragraph, a heading, a list item, a blockquote, a table
\* cell, a caption and the generic block container
BlockishTags ==
  {"P", "H1", "H2", "H3", "H4", "H5", "H6", "LI", "BLOCKQUOTE", "TD", "TH",
   "FIGCAPTION", "DIV"}

\* C28: no element the matcher returns has a direct child of one of those
\* tags whose trimmed text is longer than 30 characters.
C28_NoContainerReturned ==
  mFound # None =>
    \A i \in 1..Len(mFound[1]) :
      ~\E child \in children(kids, mFound[1][i]) :
         /\ page.tag[child] \in BlockishTags
         /\ Len(trim(textContent(kids, child))) > MinBlockLen

(***************************************************************************)
(* Properties of sentence mode                                             *)
(***************************************************************************)
\* The elements that carry the hover highlight in given class lists
Highlighted(cls) == {e \in DOMAIN cls : "vakya-sentence-hover" \in cls[e]}

\* The translated element under a place of the pointer, as a set
TranslatedUnder(pos) ==
  LET el == elementFromPoint(pos)
      translatedEl == IF el = None THEN None
                      ELSE closestTranslated(classes, el[1])
  IN IF translatedEl = None THEN {} ELSE {translatedEl[1]}

\* C29: when Meta or Control goes down, isModifierHeld becomes true and the
\* highlighted elements are exactly the translated element under the last
\* pointer position; after a pointer move with the modifier held they are
\* exactly the translated element under the pointer (none if there is none).
C29_HoverFollowsPointer ==
  [][/\ (\E key \in {"Meta", "Control"} : ~isModifierHeld /\ KeyDown(key)) =>
          /\ isModifierHeld'
          /\ Highlighted(classes') = TranslatedUnder(lastMousePosition)
     /\ \A pos \in Positions :
          (isModifierHeld /\ MouseMove(pos)) =>
            Highlighted(classes') = TranslatedUnder(pos)]_vars

\* The originals the session records for an element (what restoreOriginal
\* writes back into it)
RecordedFor(el) ==
  {SessionOriginals[i] : i \in {j \in DOMAIN SessionElements :
                                  SessionElements[j] = el}}

\* A click with the modifier held that lands on a translated element
SentenceClickOn(el) ==
  /\ isModifierHeld
  /\ "vakya-translated" \in classes[el]
  /\ ClickElement(el) \/ \E idx \in 1..MaxWordPlace : ClickWord(el, idx)

\* C30: a click on a translated element with the modifier held opens a popup
\* whose content is the element's stored original text, and that text is the
\* original the session records for the element.
C30_PopupShowsSessionOriginal ==
  [][\A el \in Elements(page) :
       SentenceClickOn(el) =>
         /\ activeTooltip' # None
         /\ activeTooltip'[1].kind = "original"
         /\ Some(activeTooltip'[1].text) = dataset[el].vakyaOriginal
         /\ RecordedFor(el) = {activeTooltip'[1].text}]_vars

(***************************************************************************)
(* Properties of the word-lookup flow                                      *)
(***************************************************************************)
\* The popup shows the loading indicator
Loading(tip) == tip # None /\ tip[1].kind \in {"setup", "translating"}

\* The popup shows a word with the analyze button attached for it
WithButton(tip, kind, span) ==
  /\ tip # None
  /\ tip[1].kind = kind
  /\ tip[1].word = span.word
  /\ tip[1].btn # None
  /\ tip[1].btn[1].span = span
  /\ ~tip[1].btn[1].disabled

\* The on-device path ends without a translation for flow i while the popup
\* is open: the initialization gave no translator, or translate gave nothing.
OnDeviceFails(i) ==
  /\ activeTooltip # None
  /\ \/ browserTranslator = None /\ InitDone(i, FALSE)
     \/ BrowserTranslateDone(i, FALSE)

\* C31: a result of the on-device translator is shown with the analyze
\* button when the popup is still open; when the on-device path is
\* unavailable or fails, the popup shows the word with the analyze button
\* only; no step of the flow raises the error overlay, and a popup shows the
\* loading indicator only while a flow is pending.
C31_LookupOutcome ==
  [][/\ \A i \in 1..Len(wordFlows) :
          /\ (activeTooltip # None /\ BrowserTranslateDone(i, TRUE)) =>
               WithButton(activeTooltip', "translation", wordFlows[i].span)
          /\ OnDeviceFails(i) =>
               WithButton(activeTooltip', "button", wordFlows[i].span)
          /\ (\E ok \in BOOLEAN : InitDone(i, ok) \/ BrowserTranslateDone(i, ok)) =>
               /\ activeOverlay' = activeOverlay
               /\ activeFloatingBar' = activeFloatingBar
     /\ \A el \in Elements(page), idx \in 1..MaxWordPlace :
          (ClickWord(el, idx) /\ ~isModifierHeld /\ activeTooltip' # None
             /\ ~startsInit /\ browserTranslator = None) =>
               WithButton(activeTooltip', "button", WordUnit(el, idx))
     /\ Loading(activeTooltip') => wordFlows' # <<>>]_vars

\* A failed on-device translation has left the popup with the button only.
C31_Witness ==
  /\ activeTooltip # None
  /\ activeTooltip[1].kind = "button"
  /\ browserTranslator # None
  /\ wordFlows = <<>>

\* A step starts initBrowserTranslator: a lookup suspended at that await
\* is added
InitStarted ==
  /\ Len(wordFlows') = Len(wordFlows) + 1
  /\ wordFlows'[Len(wordFlows')].stage = "init"

\* C32: initBrowserTranslator is started only by a word click, and only
\* when none was started since the session began: the flag that records a
\* start is down at the start and is lowered again only by the restore that
\* ends the session.
C32_LazyInitOnce ==
  [][/\ InitStarted =>
          /\ WordClicked(lastEvent')
          /\ ~browserTranslatorInitialized
          /\ browserTranslatorInitialized'
     /\ (browserTranslatorInitialized /\ ~browserTranslatorInitialized') =>
          Restored]_vars

\* A second word is clicked while the initialization started by the first
\* click is pending.
C32_Witness ==
  /\ \E i \in 1..Len(wordFlows) :
       /\ wordFlows[i].stage = "init"
       /\ wordFlows[i].session = "current"
       /\ activeTooltip # None
       /\ activeTooltip[1].anchor # wordFlows[i].span
       /\ activeTooltip[1].kind = "button"
  /\ translationState # None

(***************************************************************************)
(* Properties of the stored context                                        *)
(***************************************************************************)
\* C33: after applyTranslations has set the session, the stored context of
\* each rewritten element is the text that was sent for translation at that
\* element's position.
C33_ContextIsSentText ==
  [][\A i \in 1..MaxTranslateCalls, kind \in ResultKinds :
       (AppliedIn(i, kind) /\ Applied) =>
         \A j \in DOMAIN SessionElements' :
           dataset'[SessionElements'[j]].vakyaContext =
             Some(translateCalls[i].texts[j])]_vars

(***************************************************************************)
(* Properties of restore                                                   *)
(***************************************************************************)
\* An element restored to a recorded original: its text, and none of what
\* applyTranslations put on it
RestoredTo(el, original) ==
  /\ textContent(kids', el) = original
  /\ "vakya-translated" \notin classes'[el]
  /\ dataset'[el] = NoData
  /\ "click" \notin listeners'[el]

\* C34: restoreOriginal on a session restores every recorded element,
\* whether or not the element is still in the document, and leaves the
\* session null.
C34_RestoreProcessesAll ==
  [][(translationState # None /\ RestoreOriginal) =>
       /\ \A i \in DOMAIN SessionElements :
            RestoredTo(SessionElements[i], SessionOriginals[i])
       /\ translationState' = None]_vars

\* A session that recorded an element outside the document, followed by an
\* element in it, has been restored.
C34_Witness ==
  /\ lastEvent.type = "restore"
  /\ translationState = None
  /\ activeFloatingBar = RestoredBar
  /\ \E e \in Elements(page) \ {Body} :
       /\ ~attached(e)
       /\ \E f \in Elements(page) \ {Body} :
            f > e /\ attached(f) /\ kids[f] = page.kids[f]

(***************************************************************************)
(* Rewritten elements and the session                                      *)
(***************************************************************************)
\* An element carries something applyTranslations puts on it
Rewritten(e) ==
  \/ "vakya-translated" \in classes[e]
  \/ dataset[e] # NoData
  \/ \E j \in 1..Len(kids[e]) : kids[e][j].k = "word"

\* C35: an element carries the translated tag, the stored metadata or word
\* units only if the active session records it.
C35_RewrittenOnlyInSession ==
  \A e \in Elements(page) : Rewritten(e) => e \in Range(SessionElements)

\* C36: no two elements the matcher returns are ancestor and descendant of
\* each other, in whichever order they were matched.
C36_NoNestedMatches ==
  \A i, j \in DOMAIN FoundElements :
    FoundElements[i] \notin ancestors(kids, FoundElements[j])

(***************************************************************************)
(* Properties of the analyze control                                       *)
(***************************************************************************)
\* C37: a click on the analyze control starts exactly one run of
\* analyzeWordWithButton, also when it is a retry after a failure; a
\* disabled control starts none.
C37_OneRunPerClick ==
  [][/\ lastEvent'.type = "analyze-click" =>
          /\ lastEvent'.analysis = 1
          /\ Len(analyses') = Len(analyses) + 1
     /\ (activeTooltip # None /\ activeTooltip[1].btn # None
           /\ activeTooltip[1].btn[1].disabled) => ~ClickAnalyze]_vars

\* C38: at most one element carries the sentence-hover highlight, it is the
\* element hoveredSentence refers to, and there is a highlight only while
\* isModifierHeld is true.
C38_OneHighlight ==
  /\ Cardinality(Highlighted(classes)) <= 1
  /\ \A e \in Highlighted(classes) : hoveredSentence = Some(e)
  /\ Highlighted(classes) # {} => isModifierHeld

\* The element under the pointer is highlighted while the modifier is held.
C38_Witness ==
  /\ isModifierHeld
  /\ lastMousePosition # 0
  /\ hoveredSentence # None
  /\ Highlighted(classes) = {hoveredSentence[1]}

(***************************************************************************)
(* The on-device translator across sessions                                *)
(***************************************************************************)
\* C39: the translator reference never holds a translator whose
\* initialization was started before the last restore: after restoreOriginal
\* it stays null until a word click of a later session initializes it.
C39_NoStaleTranslator ==
  browserTranslator # None => browserTranslator[1].session = "current"

(***************************************************************************)
(* Properties of sendMessageWithRetry                                      *)
(***************************************************************************)
\* chrome.runtime.sendMessage calls made so far
Sends == Len(sLog) + (IF sPc = "sending" THEN 1 ELSE 0)

\* The errors that report a failure to reach the background script
ConnectionErrors == {ConnectionError, ReceivingEndError, NoConnectionError}

\* What the call has done is what the claim allows: every send but the last
\* was rejected with a connection error, and the call ended with the
\* response of the last send, or with its error when that was another error
\* or the send was the last one allowed.
AsClaimed ==
  /\ Sends <= Retries + 1
  /\ \A k \in 1..Len(sLog) :
       (k < Len(sLog) \/ sPc # "done") =>
         ~sLog[k].ok /\ sLog[k].error \in ConnectionErrors
  /\ sPc = "done" =>
       /\ sLog # <<>>
       /\ LET last == sLog[Len(sLog)] IN
          IF last.ok
          THEN sOutcome # None /\ sOutcome[1].returned
          ELSE /\ sOutcome # None
               /\ ~sOutcome[1].returned
               /\ sOutcome[1].error = last.error
               /\ last.error \notin ConnectionErrors \/ Len(sLog) = Retries + 1
  /\ sPc # "done" => sOutcome = None

====
